---------------------------- MODULE Spec2Model ----------------------------
(***************************************************************************)
(* Model of the content pipeline of searchf: the segment algebra           *)
(* (searchf/segments.py), the SGR processor (searchf/sgr.py) and the       *)
(* filtering of raw lines into selected lines (searchf/models.py).         *)
(*                                                                         *)
(* Pure functions are operators that follow the control flow of the code;  *)
(* each has a specification of its own whose initial states draw the       *)
(* arguments from bounded sets and whose action applies the function.      *)
(* Indices of sequences are 1-based here and 0-based in the code;          *)
(* positions inside a text (segment start/end) are kept 0-based as in     *)
(* the code.                                                               *)
(***************************************************************************)
EXTENDS Integers, Sequences, FiniteSets, TLC

VARIABLES
    pc,         \* position of the caller: "start", then the call made
    bottom,     \* merge(): argument bottom
    top,        \* merge(): argument top
    merged,     \* merge(): returned list
    layers,     \* flatten(): argument layers
    flat,       \* flatten(): returned list
    sm_in,      \* sort_and_merge(): argument segments
    sm_out,     \* sort_and_merge(): returned list
    sm_prev,    \* the list returned by the previous sort_and_merge() call
    it_start,   \* iterate(): argument start
    it_end,     \* iterate(): argument end
    it_segs,    \* iterate(): argument matching_segments
    pieces,     \* iterate(): the tuples yielded, in order
    fm_text,    \* find_matching(): argument text
    fm_keywords,    \* find_matching(): argument keywords, insertion order
    fm_ignore_case, \* find_matching(): argument ignore_case
    fm_attr,    \* find_matching(): argument attr
    fm_ret,     \* find_matching(): returned (matching, segments)
    raw_lines,  \* RawContent._lines
    sgr,        \* RawContent._sgr: the Processor's _a, _s, _fg, _bg
    filters,    \* RawContent.filter(): argument filters
    line_min,   \* RawContent.filter(): argument line_min
    line_mode,  \* RawContent.filter(): argument line_mode
    sgr_mode,   \* RawContent.filter(): argument sgr_mode
    selected,   \* the SelectedContent returned: lines, hits
    d_offset,   \* _draw_content(): argument offset
    d_width,    \* the width of the space available for content
    drawn,      \* per selected line, the tuples iterate yielded when drawn
    offsets,    \* an Offsets object: hoffset, voffset, voffset_desc, _ymax
    o_prev,     \* the Offsets object before the last set_v_offset call
    o_arg,      \* set_v_offset(): argument offset of the last call
    o_ret,      \* set_v_offset(): value returned by the last call
    sgr_in,     \* Processor.filter(): the line of the last call, as tokens
    sgr_prev,   \* the Processor state before the last call
    sgr_out,    \* Processor.filter(): the segments and line returned
    view_size,  \* TextView._size: lines and columns of the window
    content_size, \* TextView._content_available_size: height and width
    wrap,       \* ViewConfig.wrap
    line_numbers, \* ViewConfig.line_numbers
    bullets,    \* ViewConfig.bullets
    display,    \* TextView._display: firstdlines and dlines
    status,     \* the status returned by the last TextView command
    v_arg,      \* the argument of the last TextView command
    ops,        \* the number of calls made on the TextView since it was created
    dirty,      \* ViewConfig.dirty
    e_order,    \* an AutoEnum class: its members in the order of their values
    e_start,    \* the member the get_next and get_prev calls started from
    e_cur,      \* the member the last get_next or get_prev call returned
    e_nexts,    \* the number of get_next calls made
    e_prevs,    \* the number of get_prev calls made
    e_arg,      \* from_int(): argument i of the last call
    e_ret,      \* from_int(): the member returned or the exception raised
    store,      \* a Store: the directory, _files, _slot_ids, _next_slot_id,
                \* _cur_idx
    pickles,    \* the object pickled in each slot file of the directory
    st_cur,     \* the id of the slot saved or loaded last, None after a
                \* delete and on a new Store
    st_ret,     \* the value returned by the last Store call
    kp,         \* a keys.Processor: _escaping, _seq, start_
    k_now,      \* the time, in tenths of a second
    k_key,      \* process(): argument key of the last call
    k_ev        \* process(): the KeyEvent returned by the last call

segvars == <<bottom, top, merged, layers, flat, sm_in, sm_out, sm_prev,
             it_start, it_end, it_segs, pieces>>

fmvars == <<fm_text, fm_keywords, fm_ignore_case, fm_attr, fm_ret>>

pipevars == <<raw_lines, sgr, filters, line_min, line_mode, sgr_mode,
              selected, d_offset, d_width, drawn>>

offvars == <<offsets, o_prev, o_arg, o_ret>>

procvars == <<sgr_in, sgr_prev, sgr_out>>

viewvars == <<view_size, content_size, wrap, line_numbers, bullets, display,
              status, v_arg, ops, dirty>>

enumvars == <<e_order, e_start, e_cur, e_nexts, e_prevs, e_arg, e_ret>>

storevars == <<store, pickles, st_cur, st_ret>>

keyvars == <<kp, k_now, k_key, k_ev>>

libvars == <<enumvars, storevars, keyvars>>

vars == <<pc, segvars, fmvars, pipevars, offvars, procvars, viewvars,
          libvars>>

---------------------------------------------------------------------------
(* Bounds of the model *)

\* Largest text position (a segment's end is at most MaxPos)
MaxPos == 4

\* Largest number of segments in one argument list
MaxSegs == 2

\* Largest length of a text handed to find_matching
MaxText == 3

\* Largest number of keywords in one filter
MaxKeywords == 2

\* Most lines of a file, most filters of a stack
MaxLines == 2

MaxFilters == 2

\* Largest horizontal offset and largest content width of a draw
MaxOffset == 1

MaxWidth == 2

\* Most lines of a file read line by line
MaxFileLines == 8

\* Largest height available and largest number of display lines of a layout
MaxHeight == 3

MaxContent == 4

\* Most selected lines handed to SelectedContent.layout and the longest text
\* of one of them
MaxSelected == 3

MaxLineLen == 3

\* Most calls made on a TextView after its creation
MaxOps == 2

\* Most tokens (plain characters and escape sequences) of a line given to
\* the SGR processor
MaxTokens == 2

\* Most get_next calls and most get_prev calls made on the members of an
\* AutoEnum class: the number of members of the largest class
MaxCalls == 5

\* Most slot ids the saves of a Store take
MaxSaves == 4

\* Longest escape sequence accumulated and the last tick of the clock
MaxSeq == 2

MaxClock == 3

---------------------------------------------------------------------------
(* Small helpers *)

Min(a, b) == IF a < b THEN a ELSE b

Max(a, b) == IF a > b THEN a ELSE b

Range(s) == {s[i] : i \in 1..Len(s)}

\* F(e), with e evaluated once however often F uses its argument
With(e, F(_)) == CHOOSE y \in {F(x) : x \in {e}} : TRUE

\* class Segment(NamedTuple): start inclusive, end exclusive, attr
Segment(start, end, attr) == [start |-> start, end |-> end, attr |-> attr]

\* Positions covered by one segment / by a collection of segments
Cover(s) == {p \in 0..(2 * MaxPos + 2) : s.start <= p /\ p < s.end}

CoverSet(S) == UNION {Cover(s) : s \in S}

CoverSeq(l) == CoverSet(Range(l))

\* Tuple order of Python on (start, end, attr)
SegLess(a, b) ==
    \/ a.start < b.start
    \/ a.start = b.start /\ a.end < b.end
    \/ a.start = b.start /\ a.end = b.end /\ a.attr < b.attr

\* sorted(segments): ascending list of the elements of a set of segments
RECURSIVE sorted(_)
sorted(S) ==
    IF S = {} THEN <<>>
    ELSE LET m == CHOOSE x \in S : \A y \in S : y = x \/ SegLess(x, y)
         IN <<m>> \o sorted(S \ {m})

---------------------------------------------------------------------------
(* segments.merge *)

\* The inner while loop of merge (i_bnext < bot.end): consumes the tops that
\* overlap the bottom segment bot. Returns the list and the top index.
RECURSIVE merge_overlap(_, _, _, _, _)
merge_overlap(bot, tp, i_t, i_bnext, out) ==
    IF ~(i_bnext < bot.end) THEN [merged |-> out, i_t |-> i_t]
    ELSE IF i_t > Len(tp)
    THEN \* we consumed all tops, so just add last segment of bottom
         [merged |-> Append(out, Segment(i_bnext, bot.end, bot.attr)),
          i_t |-> i_t]
    ELSE IF tp[i_t].start <= i_bnext
    THEN merge_overlap(bot, tp, i_t + 1, tp[i_t].end, Append(out, tp[i_t]))
    ELSE LET end == Min(tp[i_t].start, bot.end)
         IN merge_overlap(bot, tp, i_t, end,
                          Append(out, Segment(i_bnext, end, bot.attr)))

\* The outer while loop of merge (i_b < len(bottom)) and the trailing loop
\* that appends the tops left.
RECURSIVE merge_loop(_, _, _, _, _)
merge_loop(bot, tp, i_b, i_t, out) ==
    IF i_b > Len(bot) THEN out \o SubSeq(tp, i_t, Len(tp))
    ELSE IF i_t > Len(tp)
    THEN merge_loop(bot, tp, i_b + 1, i_t, Append(out, bot[i_b]))
    ELSE IF tp[i_t].end <= bot[i_b].start
    THEN \* top is clear ahead
         merge_loop(bot, tp, i_b, i_t + 1, Append(out, tp[i_t]))
    ELSE IF tp[i_t].start >= bot[i_b].end
    THEN \* bottom is clear ahead
         merge_loop(bot, tp, i_b + 1, i_t, Append(out, bot[i_b]))
    ELSE \* we have some overlap
         LET r == merge_overlap(bot[i_b], tp, i_t, bot[i_b].start, out)
         IN merge_loop(bot, tp, i_b + 1, r.i_t, r.merged)

\* merge with a slip in the initial top index (i_t = 1 instead of 0)
merge_skip_first_top(bot, tp) == merge_loop(bot, tp, 1, 2, <<>>)

merge(bot, tp) == merge_loop(bot, tp, 1, 1, <<>>)

\* The assertions of merge on its arguments (start < end)
merge_asserts(bot, tp) ==
    /\ \A i \in 1..Len(bot) : bot[i].start < bot[i].end
    /\ \A i \in 1..Len(tp) : tp[i].start < tp[i].end

---------------------------------------------------------------------------
(* segments.flatten *)

\* merged = layers[0]; for i in range(1, len(layers)): merged = merge(...)
RECURSIVE flatten_loop(_, _, _)
flatten_loop(ls, i, acc) ==
    IF i > Len(ls) THEN acc
    ELSE flatten_loop(ls, i + 1, merge(acc, ls[i]))

flatten(ls) == flatten_loop(ls, 2, ls[1])

---------------------------------------------------------------------------
(* segments.sort_and_merge *)

\* elif pending.end >= cur.start: the pending segment touches or overlaps cur
touches_strict(pending, cur) == pending.end > cur.start

touches(pending, cur) == pending.end >= cur.start

\* The for loop over sorted(segments); pending is <<>> for None, else <<seg>>
RECURSIVE sort_and_merge_loop(_, _, _, _)
sort_and_merge_loop(l, i, pending, acc) ==
    IF i > Len(l)
    THEN IF pending # <<>> THEN acc \cup {pending[1]} ELSE acc
    ELSE LET cur == l[i] IN
         IF pending = <<>>
         THEN sort_and_merge_loop(l, i + 1, <<cur>>, acc)
         ELSE IF touches(pending[1], cur)
         THEN sort_and_merge_loop(l, i + 1,
                  <<Segment(pending[1].start,
                            Max(pending[1].end, cur.end), cur.attr)>>, acc)
         ELSE sort_and_merge_loop(l, i + 1, <<cur>>, acc \cup {pending[1]})

\* The same loop with a slip: a fused segment is emitted at once instead of
\* staying pending
RECURSIVE sort_and_merge_loop_emit(_, _, _, _)
sort_and_merge_loop_emit(l, i, pending, acc) ==
    IF i > Len(l)
    THEN IF pending # <<>> THEN acc \cup {pending[1]} ELSE acc
    ELSE LET cur == l[i] IN
         IF pending = <<>>
         THEN sort_and_merge_loop_emit(l, i + 1, <<cur>>, acc)
         ELSE IF touches(pending[1], cur)
         THEN sort_and_merge_loop_emit(l, i + 1, <<>>,
                  acc \cup {Segment(pending[1].start,
                                    Max(pending[1].end, cur.end), cur.attr)})
         ELSE sort_and_merge_loop_emit(l, i + 1, <<cur>>,
                                       acc \cup {pending[1]})

sort_and_merge_emit(S) == sorted(sort_and_merge_loop_emit(sorted(S), 1, <<>>, {}))

sort_and_merge(S) == sorted(sort_and_merge_loop(sorted(S), 1, <<>>, {}))

\* The assertions of sort_and_merge: cur.start < cur.end for every segment,
\* pending.attr == cur.attr when two segments are fused
sort_and_merge_asserts(S) ==
    /\ \A s \in S : s.start < s.end
    /\ \A s, u \in S : s.attr = u.attr

---------------------------------------------------------------------------
(* segments.iterate *)

\* One yielded tuple (is_match, start, end, attr)
Piece(m, s, e, a) == [is_match |-> m, start |-> s, end |-> e, attr |-> a]

\* matching_end = min(cur.end, end)
matching_end_unclipped(cur_end, end) == cur_end

matching_end(cur_end, end) == Min(cur_end, end)

\* The code after the for loop: the non-matching piece left out
iterate_tail(start, end, out) ==
    IF start < end THEN Append(out, Piece(FALSE, start, end, -1)) ELSE out

\* The for loop over matching_segments
RECURSIVE iterate_loop(_, _, _, _, _)
iterate_loop(segs, i, start, end, out) ==
    IF i > Len(segs) THEN iterate_tail(start, end, out)
    ELSE LET cur == segs[i] IN
         IF start >= end THEN out                             \* return
         ELSE IF start >= cur.end
         THEN iterate_loop(segs, i + 1, start, end, out)      \* continue
         ELSE IF end < cur.start
         THEN iterate_tail(start, end, out)                   \* break
         ELSE LET out1 == IF start < cur.start
                          THEN Append(out,
                                   Piece(FALSE, start, cur.start, -1))
                          ELSE out
                  start1 == IF start < cur.start THEN cur.start ELSE start
                  m_end == matching_end(cur.end, end)
                  out2 == IF start1 < m_end
                          THEN Append(out1,
                                   Piece(TRUE, start1, m_end, cur.attr))
                          ELSE out1
              IN iterate_loop(segs, i + 1, cur.end, end, out2)

iterate(start, end, matching_segments) ==
    iterate_loop(matching_segments, 1, start, end, <<>>)

\* The assertions of iterate: start < end, cur.start < cur.end
iterate_asserts(start, end, segs) ==
    /\ start < end
    /\ \A i \in 1..Len(segs) : segs[i].start < segs[i].end

---------------------------------------------------------------------------
(* segments.find_matching *)

\* A text is a sequence of characters. A keyword is a pattern of the regular
\* expression language, one of: a literal ("lit", s the characters), the
\* anchors ^ ("bol") and $ ("eol"), and c* ("star", s = <<c>>).
Pattern(kind, s) == [kind |-> kind, s |-> s]

\* re.IGNORECASE: characters are compared without case
lower(c) == IF c = "A" THEN "a" ELSE IF c = "B" THEN "b" ELSE c

char_eq(c, d, ignore_case) ==
    IF ignore_case THEN lower(c) = lower(d) ELSE c = d

\* End of the longest run of character c that starts at position q
RECURSIVE run_end(_, _, _, _)
run_end(text, c, q, ignore_case) ==
    IF q < Len(text) /\ char_eq(text[q + 1], c, ignore_case)
    THEN run_end(text, c, q + 1, ignore_case)
    ELSE q

\* The end of the match of pattern k that starts at position q (0-based) of
\* text, or -1 when there is none; with nonempty an empty match is refused
match_at(k, text, q, ignore_case, nonempty) ==
    CASE k.kind = "lit" ->
            IF /\ q + Len(k.s) <= Len(text)
               /\ \A i \in 1..Len(k.s) :
                      char_eq(text[q + i], k.s[i], ignore_case)
            THEN q + Len(k.s) ELSE -1
      [] k.kind = "bol" -> IF q = 0 /\ ~nonempty THEN q ELSE -1
      [] k.kind = "eol" -> IF q = Len(text) /\ ~nonempty THEN q ELSE -1
      [] k.kind = "star" ->
            LET e == run_end(text, k.s[1], q, ignore_case)
            IN IF nonempty /\ e = q THEN -1 ELSE e

\* The leftmost match that starts at q or later: <<[start, end]>>, or <<>>
RECURSIVE re_search(_, _, _, _, _)
re_search(k, text, q, ignore_case, must_advance) ==
    IF q > Len(text) THEN <<>>
    ELSE LET e == match_at(k, text, q, ignore_case, must_advance)
         IN IF e >= 0 THEN <<[start |-> q, end |-> e]>>
            ELSE re_search(k, text, q + 1, ignore_case, FALSE)

\* re.finditer(k, text, flags): the non-overlapping matches from left to
\* right; an empty match is not repeated at the position it was found at
RECURSIVE finditer_loop(_, _, _, _, _, _)
finditer_loop(k, text, ignore_case, pos, must_advance, out) ==
    LET m == re_search(k, text, pos, ignore_case, must_advance)
    IN IF m = <<>> THEN out
       ELSE finditer_loop(k, text, ignore_case, m[1].end,
                          m[1].end = m[1].start, Append(out, m[1]))

finditer(k, text, ignore_case) ==
    finditer_loop(k, text, ignore_case, 0, FALSE, <<>>)

\* if match.start() >= match.end(): continue
skip_match_never(m) == FALSE

skip_match(m) == m.start >= m.end

\* The segments one keyword adds to matching (the inner for loop)
keyword_segments(text, k, ignore_case, attr) ==
    {Segment(m.start, m.end, attr) :
        m \in {x \in Range(finditer(k, text, ignore_case)) : ~skip_match(x)}}

\* The returned pair; raised is TRUE when an assertion failed instead
Matching(m, segs) == [raised |-> FALSE, matching |-> m, segments |-> segs]

AssertionError == [raised |-> TRUE, matching |-> FALSE, segments |-> <<>>]

\* is_matching of the keyword: it added at least one segment
is_matching_always(segs) == TRUE

is_matching(segs) == segs # {}

\* The for loop over the keywords, then sort_and_merge
RECURSIVE find_matching_loop(_, _, _, _, _, _)
find_matching_loop(text, keywords, i, ignore_case, attr, matching) ==
    IF i > Len(keywords)
    THEN IF sort_and_merge_asserts(matching)
         THEN Matching(TRUE, sort_and_merge(matching))
         ELSE AssertionError
    ELSE LET segs == keyword_segments(text, keywords[i], ignore_case, attr)
         IN IF ~is_matching(segs)
            THEN \* Bail out early as soon as one keyword has no match
                 Matching(FALSE, <<>>)
            ELSE find_matching_loop(text, keywords, i + 1, ignore_case,
                                    attr, matching \cup segs)

find_matching(text, keywords, ignore_case, attr) ==
    find_matching_loop(text, keywords, 1, ignore_case, attr, {})

---------------------------------------------------------------------------
(* sgr.Processor *)

\* A raw line is a sequence of characters; ESC stands for the character
\* \x1b. The character classes of the two regular expressions of sgr.py:
ESC == "ESC"

Digits == {"0", "1", "2", "3", "4", "5", "6", "7", "8", "9"}

\* [0-?]
ParamChars == Digits \cup {":", ";", "<", "=", ">", "?"}

\* [!-/] (without the two quote characters, which no line of the model holds)
IntermChars ==
    {"!", "#", "$", "%", "&", "(", ")", "*", "+", ",", "-", ".", "/"}

\* [@-~] (without backslash and backquote, which no line of the model holds)
FinalChars ==
    {"@", "A", "B", "C", "D", "E", "F", "G", "H", "I", "J", "K", "L", "M",
     "N", "O", "P", "Q", "R", "S", "T", "U", "V", "W", "X", "Y", "Z",
     "[", "]", "^", "_",
     "a", "b", "c", "d", "e", "f", "g", "h", "i", "j", "k", "l", "m",
     "n", "o", "p", "q", "r", "s", "t", "u", "v", "w", "x", "y", "z",
     "{", "|", "}", "~"}

\* First position at or after q whose character is not in class C
RECURSIVE skip_class(_, _, _)
skip_class(line, q, C) ==
    IF q < Len(line) /\ line[q + 1] \in C THEN skip_class(line, q + 1, C)
    ELSE q

\* End of the match of \x1b\[[0-?]*[!-/]*[@-~] at position q, or -1
csi_end(line, q) ==
    IF q + 1 < Len(line) /\ line[q + 1] = ESC /\ line[q + 2] = "["
    THEN LET r == skip_class(line, skip_class(line, q + 2, ParamChars),
                             IntermChars)
         IN IF r < Len(line) /\ line[r + 1] \in FinalChars THEN r + 1 ELSE -1
    ELSE -1

\* A substitution that removes nothing
strip_csi_nothing(line, q) == SubSeq(line, q + 1, Len(line))

\* new_line = re.sub(r'\x1b\[[0-?]*[!-/]*[@-~]', '', line)
RECURSIVE strip_csi(_, _)
strip_csi(line, q) ==
    IF q >= Len(line) THEN <<>>
    ELSE LET e == csi_end(line, q)
         IN IF e >= 0 THEN strip_csi(line, e)
            ELSE <<line[q + 1]>> \o strip_csi(line, q + 1)

\* int(a) of a string of digits
DigitVal(c) ==
    CASE c = "0" -> 0 [] c = "1" -> 1 [] c = "2" -> 2 [] c = "3" -> 3
      [] c = "4" -> 4 [] c = "5" -> 5 [] c = "6" -> 6 [] c = "7" -> 7
      [] c = "8" -> 8 [] c = "9" -> 9

RECURSIVE to_int(_)
to_int(ds) ==
    IF ds = <<>> THEN 0
    ELSE 10 * to_int(SubSeq(ds, 1, Len(ds) - 1)) + DigitVal(ds[Len(ds)])

\* The match of \x1b\[([0-9]+)(;([0-9]+))?m at position q: <<[s, e, a_1,
\* a_2]>> with the two groups as digit strings (a_2 = <<>> for None), or <<>>
sgr_match(line, q) ==
    IF q + 1 < Len(line) /\ line[q + 1] = ESC /\ line[q + 2] = "["
    THEN LET d1 == skip_class(line, q + 2, Digits)
             has2 == /\ d1 > q + 2
                     /\ d1 < Len(line) /\ line[d1 + 1] = ";"
                     /\ skip_class(line, d1 + 1, Digits) > d1 + 1
             d2 == IF has2 THEN skip_class(line, d1 + 1, Digits) ELSE d1
         IN IF d1 > q + 2 /\ d2 < Len(line) /\ line[d2 + 1] = "m"
            THEN <<[s |-> q, e |-> d2 + 1,
                    a_1 |-> SubSeq(line, q + 3, d1),
                    a_2 |-> IF has2 THEN SubSeq(line, d1 + 2, d2)
                            ELSE <<>>]>>
            ELSE <<>>
    ELSE <<>>

\* re.finditer(r'\x1b\[([0-9]+)(;([0-9]+))?m', line)
RECURSIVE sgr_finditer(_, _)
sgr_finditer(line, q) ==
    IF q >= Len(line) THEN <<>>
    ELSE LET m == sgr_match(line, q)
         IN IF m # <<>> THEN m \o sgr_finditer(line, m[1].e)
            ELSE sgr_finditer(line, q + 1)

\* curses attribute bits
A_BOLD == 2097152

A_DIM == 1048576

A_UNDERLINE == 131072

\* curses.color_pair(n) is n * COLOR_PAIR_UNIT; A_COLOR covers 8 bits
COLOR_PAIR_UNIT == 256

\* a | bit, for a single attribute bit
bit_or(a, bit) == IF (a \div bit) % 2 = 1 THEN a ELSE a + bit

\* (~curses.A_COLOR & a) | pair
set_color(a, pair) ==
    a - ((a \div COLOR_PAIR_UNIT) % 256) * COLOR_PAIR_UNIT + pair

\* a in SGR_COLOR_TO_COLOR_ID
in_SGR_COLOR_TO_COLOR_ID(a) ==
    a \in (30..37) \cup {39} \cup (90..97) \cup (40..47) \cup (100..107)

SGR_COLOR_TO_COLOR_ID(a) ==
    CASE a \in 30..37 -> a - 30
      [] a = 39 -> 0
      [] a \in 90..97 -> a - 90 + 8
      [] a \in 40..47 -> a - 40 + 16
      [] a \in 100..107 -> a - 100 + 24

in_SGR_BG_COLOR_TO_COLOR_ID(a) == a \in (40..47) \cup (100..107)

SGR_BG_COLOR_TO_COLOR_ID(a) ==
    CASE a \in 40..47 -> a - 40
      [] a \in 100..107 -> a - 100 + 8

\* colors.get_color_pair_id
get_color_pair_id(fg, bg) ==
    IF bg = -1 THEN fg
    ELSE IF fg = -1 THEN 16 + bg
    ELSE IF fg = bg THEN 32 + fg
    ELSE 48 + bg

\* colors.get_fg_bg_color_pair: curses.color_pair(get_color_pair_id(fg, bg))
get_fg_bg_color_pair(fg, bg) == get_color_pair_id(fg, bg) * COLOR_PAIR_UNIT

\* The state of a Processor: _a, _s, _fg, _bg
Processor == [a |-> 0, s |-> -1, fg |-> -1, bg |-> -1]

\* set_attr(a), a a digit string or <<>> for None
set_attr(st, ds) ==
    IF ds = <<>> THEN st
    ELSE LET a == to_int(ds) IN
         IF a = 0 THEN [st EXCEPT !.a = 0, !.fg = -1, !.bg = -1]
         ELSE IF a = 1 THEN [st EXCEPT !.a = bit_or(@, A_BOLD)]
         ELSE IF a = 2 THEN [st EXCEPT !.a = bit_or(@, A_DIM)]
         ELSE IF a = 4 THEN [st EXCEPT !.a = bit_or(@, A_UNDERLINE)]
         ELSE IF in_SGR_COLOR_TO_COLOR_ID(a)
         THEN LET st1 == IF in_SGR_BG_COLOR_TO_COLOR_ID(a)
                         THEN [st EXCEPT !.bg = SGR_BG_COLOR_TO_COLOR_ID(a)]
                         ELSE [st EXCEPT !.fg = SGR_COLOR_TO_COLOR_ID(a)]
              IN [st1 EXCEPT
                     !.a = set_color(@, get_fg_bg_color_pair(st1.fg, st1.bg))]
         ELSE st

\* A seg_end that drops the pending segment
seg_end_drop(st, background, end) ==
    [st |-> [st EXCEPT !.s = -1], background |-> background]

\* seg_end(end): the pair of the new state and the new background list
seg_end(st, background, end) ==
    [st |-> [st EXCEPT !.s = -1],
     background |-> IF 0 <= st.s /\ st.s < end
                    THEN Append(background, Segment(st.s, end, st.a))
                    ELSE background]

\* The for loop of Processor.filter over the matches
RECURSIVE sgr_loop(_, _, _, _, _)
sgr_loop(ms, i, st, background, eaten) ==
    IF i > Len(ms) THEN [st |-> st, background |-> background]
    ELSE LET start == ms[i].s - eaten IN
         With(seg_end(st, background, start), LAMBDA r :
         With(set_attr(set_attr(r.st, ms[i].a_1), ms[i].a_2), LAMBDA st2 :
         With(IF st2.a # 0 THEN [st2 EXCEPT !.s = start] ELSE st2,
              LAMBDA st3 :
         sgr_loop(ms, i + 1, st3, r.background,
                  eaten + (ms[i].e - ms[i].s)))))

\* Processor.filter(line, mode): the new state, the background segments and
\* the new line
sgr_filter(st, line, mode) ==
    IF mode = "NONE"
    THEN [st |-> st, background |-> <<>>, line |-> line]
    ELSE LET new_line == strip_csi(line, 0) IN
         IF mode = "REMOVE"
         THEN [st |-> st, background |-> <<>>, line |-> new_line]
         ELSE LET st0 == IF st.a # 0 THEN [st EXCEPT !.s = 0] ELSE st IN
              With(sgr_loop(sgr_finditer(line, 0), 1, st0, <<>>, 0),
                   LAMBDA r :
              With(seg_end(r.st, r.background, Len(new_line)), LAMBDA f :
              [st |-> f.st, background |-> f.background,
               line |-> new_line]))

---------------------------------------------------------------------------
(* models.py: Filter, SelectedLine, SelectedLineQueue, apply_filters,      *)
(* RawContent                                                              *)

\* A Filter: ignore_case, hiding and the keywords in insertion order
Filter(ignore_case, hiding, keywords) ==
    [ignore_case |-> ignore_case, hiding |-> hiding, keywords |-> keywords]

RULER_INDEX == -1

SelectedLine(line_index, filter_index, text, segs) ==
    [line_index |-> line_index, filter_index |-> filter_index,
     text |-> text, segments |-> segs]

\* enums.LineVisibility and enums.SgrMode
LineVisibility ==
    {"ONLY_MATCHING", "CONTEXT_1", "CONTEXT_2", "CONTEXT_5", "ALL"}

SgrMode == {"PROCESS", "REMOVE", "NONE"}

\* A table in which only-matching reveals one line of context
VISIBILITY_TO_SIZE_context(mode) == IF mode = "ALL" THEN -1 ELSE 1

\* A table in which no mode reveals a non-matching line
VISIBILITY_TO_SIZE_none(mode) == 0

VISIBILITY_TO_SIZE(mode) ==
    CASE mode = "ONLY_MATCHING" -> 0
      [] mode = "CONTEXT_1" -> 1
      [] mode = "CONTEXT_2" -> 2
      [] mode = "CONTEXT_5" -> 5
      [] mode = "ALL" -> -1

\* SelectedLineQueue.__init__: _queue, _size, _left, _last_line_visible
SelectedLineQueue(mode) ==
    [queue |-> <<>>, size |-> VISIBILITY_TO_SIZE(mode), left |-> 0,
     last_line_visible |-> 0]

\* SelectedLineQueue._add: the new queue object and the returned flag
queue_add(q, selected_line) ==
    IF q.size = 0 THEN [q |-> q, flush |-> FALSE]
    ELSE LET q1 == [q EXCEPT !.queue = Append(@, selected_line)] IN
         IF q.size < 0 THEN [q |-> q1, flush |-> TRUE]
         ELSE IF q.left > 0
         THEN [q |-> [q1 EXCEPT !.left = @ - 1], flush |-> TRUE]
         ELSE [q |-> IF Len(q1.queue) > q.size
                     THEN [q1 EXCEPT !.queue = Tail(@)] ELSE q1,
               flush |-> FALSE]

\* if idx > self._last_line_visible: a ruler goes before the queued lines
needs_ruler_never(q) == FALSE

needs_ruler(q) ==
    Len(q.queue) > 0 /\ q.queue[1].line_index > q.last_line_visible

\* add_matching without self._left = self._size
add_matching_no_countdown(q, selected_line) ==
    [q |-> [q EXCEPT !.queue = <<>>,
                     !.last_line_visible = selected_line.line_index + 1],
     lines |-> (IF needs_ruler(q)
                THEN <<SelectedLine(RULER_INDEX, -1, <<>>, <<>>)>>
                ELSE <<>>) \o q.queue \o <<selected_line>>]

\* SelectedLineQueue.add_matching: the new queue object and the lines
add_matching(q, selected_line) ==
    [q |-> [q EXCEPT !.queue = <<>>,
                     !.last_line_visible = selected_line.line_index + 1,
                     !.left = q.size],
     lines |-> (IF needs_ruler(q)
                THEN <<SelectedLine(RULER_INDEX, -1, <<>>, <<>>)>>
                ELSE <<>>) \o q.queue \o <<selected_line>>]

\* SelectedLineQueue.add_non_matching
add_non_matching(q, selected_line) ==
    With(queue_add(q, selected_line), LAMBDA r :
    IF ~r.flush THEN [q |-> r.q, lines |-> <<>>]
    ELSE [q |-> [r.q EXCEPT !.queue = <<>>,
                   !.last_line_visible = selected_line.line_index + 1],
          lines |-> r.q.queue])

\* if hide_count > 0: return False, -1, background
is_hidden_never(hide_count) == FALSE

is_hidden(hide_count) == hide_count > 0

\* The index of the filter matched last
first_show_last(first_show_idx, fidx) == fidx

\* if first_show_idx < 0: first_show_idx = fidx
first_show(first_show_idx, fidx) ==
    IF first_show_idx < 0 THEN fidx ELSE first_show_idx

\* The for loop of apply_filters over the filters; fidx is i - 1
RECURSIVE apply_filters_loop(_, _, _, _)
apply_filters_loop(line, filters_, i, acc) ==
    IF i > Len(filters_) THEN acc
    ELSE LET f == filters_[i] IN
         With(find_matching(line, f.keywords, f.ignore_case, i - 1),
              LAMBDA r :
         With(IF r.raised
              THEN [acc EXCEPT !.raised = TRUE]
              ELSE IF ~r.matching
              THEN acc
              ELSE IF f.hiding
              THEN [acc EXCEPT !.hits[i] = @ + 1, !.hide_count = @ + 1]
              ELSE [acc EXCEPT !.hits[i] = @ + 1,
                               !.show_count = @ + 1,
                               !.segs = Append(@, r.segments),
                               !.first_show_idx = first_show(@, i - 1)],
              LAMBDA next :
         IF next.raised THEN next
         ELSE apply_filters_loop(line, filters_, i + 1, next)))

\* apply_filters(line, background, filters, hits): shown, the index of the
\* first matching filter, the segments, and the hits as updated
apply_filters(line, background, filters_, hits) ==
    With(apply_filters_loop(line, filters_, 1,
             [hits |-> hits, hide_count |-> 0, show_count |-> 0,
              segs |-> <<background>>, first_show_idx |-> -1,
              raised |-> FALSE]),
         LAMBDA r :
       IF r.raised
       THEN [raised |-> TRUE, shown |-> FALSE, fidx |-> -1,
             segs |-> <<>>, hits |-> r.hits]
       ELSE IF is_hidden(r.hide_count)
       THEN [raised |-> FALSE, shown |-> FALSE, fidx |-> -1,
             segs |-> background, hits |-> r.hits]
       ELSE IF r.show_count > 0
       THEN [raised |-> FALSE, shown |-> TRUE, fidx |-> r.first_show_idx,
             segs |-> flatten(r.segs), hits |-> r.hits]
       ELSE [raised |-> FALSE, shown |-> TRUE, fidx |-> -1,
             segs |-> background, hits |-> r.hits])

\* The tab character
TAB == "TAB"

\* line.replace('\t', '    ')
RECURSIVE replace_tabs(_)
replace_tabs(line) ==
    IF line = <<>> THEN <<>>
    ELSE (IF Head(line) = TAB THEN <<" ", " ", " ", " ">> ELSE <<Head(line)>>)
             \o replace_tabs(Tail(line))

\* The line_mode as requested, whatever the filters
effective_line_mode_requested(filters_, line_mode_) == line_mode_

\* line_mode if sum(not f.hiding for f in filters) > 0 else ALL
effective_line_mode(filters_, line_mode_) ==
    IF \E i \in 1..Len(filters_) : ~filters_[i].hiding THEN line_mode_
    ELSE "ALL"

\* The body of the for loop of RawContent.filter for the line of index ri;
\* acc holds the locals lines, hits and line_queue, the Processor state and
\* whether an assertion failed
filter_line(ri, line, filters_, sgr_mode_, acc) ==
    With(sgr_filter(acc.sgr, replace_tabs(line), sgr_mode_), LAMBDA s :
    With(apply_filters(s.line, s.background, filters_, acc.hits), LAMBDA r :
    With(IF ~r.shown THEN [q |-> acc.queue, lines |-> <<>>]
         ELSE IF r.fidx >= 0
         THEN add_matching(acc.queue,
                  SelectedLine(ri, r.fidx, s.line, r.segs))
         ELSE add_non_matching(acc.queue,
                  SelectedLine(ri, -1, s.line, r.segs)),
         LAMBDA o :
    [sgr |-> s.st, queue |-> o.q, hits |-> r.hits,
     lines |-> acc.lines \o o.lines, raised |-> r.raised])))

\* The for loop of RawContent.filter
RECURSIVE filter_loop(_, _, _, _, _, _)
filter_loop(raw, i, filters_, line_min_, sgr_mode_, acc) ==
    IF i > Len(raw) \/ acc.raised THEN acc
    ELSE IF i - 1 < line_min_
    THEN filter_loop(raw, i + 1, filters_, line_min_, sgr_mode_, acc)
    ELSE With(filter_line(i - 1, raw[i], filters_, sgr_mode_, acc),
              LAMBDA next :
         filter_loop(raw, i + 1, filters_, line_min_, sgr_mode_, next))

\* RawContent.filter(filters, line_min, line_mode, sgr_mode): the lines and
\* hits of the SelectedContent returned, and the Processor state left
RawContent_filter(raw, st, filters_, line_min_, line_mode_, sgr_mode_) ==
    filter_loop(raw, 1, filters_, line_min_, sgr_mode_,
        [sgr |-> st,
         queue |-> SelectedLineQueue(effective_line_mode(filters_, line_mode_)),
         hits |-> [k \in 1..Len(filters_) |-> 0],
         lines |-> <<>>, raised |-> FALSE])

---------------------------------------------------------------------------
(* models.py: Offsets *)

\* Offsets.__init__
Offsets == [hoffset |-> 0, voffset |-> 0, voffset_desc |-> "", ymax |-> 0]

\* The two assertions of Offsets.layout
layout_asserts(available_height, content_lines_count) ==
    available_height >= 0 /\ content_lines_count >= 0

\* Offsets.layout(available_height, content_lines_count)
layout(o, available_height, content_lines_count) ==
    [o EXCEPT !.ymax = Max(0, content_lines_count - available_height)]

\* The offset kept whatever the maximum is below it
v_clamp_no_floor(offset, ymax) == IF offset >= ymax THEN ymax ELSE offset

\* The value of offset after the if / elif / else of set_v_offset
v_clamp(offset, ymax) ==
    IF offset >= ymax THEN ymax
    ELSE IF offset <= 0 THEN 0
    ELSE offset

\* The value of desc after the if / elif / else of set_v_offset;
\* int(offset * 100 / ymax) of two positive integers is the floor
v_desc(offset, ymax) ==
    IF offset >= ymax THEN "BOT"
    ELSE IF offset <= 0 THEN "TOP"
    ELSE ToString((offset * 100) \div ymax) \o "%"

\* A test that never finds the offset unchanged
is_same_offset_never(voffset, offset) == FALSE

\* if self.voffset == DIndex(offset)
is_same_offset(voffset, offset) == voffset = offset

\* Offsets.set_v_offset(offset): the object after the call and the value
\* returned
set_v_offset(o, offset) ==
    IF is_same_offset(o.voffset, v_clamp(offset, o.ymax))
    THEN [o |-> o, ret |-> FALSE]
    ELSE [o |-> [o EXCEPT !.voffset = v_clamp(offset, o.ymax),
                          !.voffset_desc = v_desc(offset, o.ymax)],
          ret |-> TRUE]

\* No Offsets call made yet
OffIdle ==
    /\ offsets = Offsets
    /\ o_prev = Offsets
    /\ o_arg = 0
    /\ o_ret = FALSE

---------------------------------------------------------------------------
(* models.py: DisplayLine, DisplayContent, SelectedContent.layout *)

\* DisplayLine: line_index is the 0-based index of a selected line, offset
\* the position in its text of the first character displayed
DisplayLine(line_index, offset) == [line_index |-> line_index, offset |-> offset]

\* DisplayContent.__init__; firstdlines[i + 1] is the entry of selected line i
DisplayContent == [firstdlines |-> <<>>, dlines |-> <<>>]

\* A SelectedContent reset with no lines and no hits
SelectedContent == [lines |-> <<>>, hits |-> <<>>, raised |-> FALSE]

\* DisplayContent.lines_count
lines_count(dc) == Len(dc.dlines)

\* assert height > 0; assert width > 0
SelectedContent_layout_asserts(height, width) == height > 0 /\ width > 0

\* A line that is never split
wrap_loop_once(sel_line_idx, offset, left, width) ==
    <<DisplayLine(sel_line_idx, offset)>>

\* The while True loop of layout: a display line, then offset += width and
\* left -= width until left <= 0
RECURSIVE wrap_loop(_, _, _, _)
wrap_loop(sel_line_idx, offset, left, width) ==
    <<DisplayLine(sel_line_idx, offset)>>
        \o (IF left - width <= 0 THEN <<>>
            ELSE wrap_loop(sel_line_idx, offset + width, left - width, width))

\* An index one past the display lines built so far
d_line_idx_next(dlines) == Len(dlines) + 1

\* d_line_idx = DIndex(len(dlines))
d_line_idx(dlines) == Len(dlines)

\* The for loops of layout over the selected lines; i is 0-based
RECURSIVE layout_loop(_, _, _, _, _)
layout_loop(lines, i, width, wrapping, dc) ==
    IF i >= Len(lines) THEN dc
    ELSE With([firstdlines |-> Append(dc.firstdlines, d_line_idx(dc.dlines)),
               dlines |-> dc.dlines \o
                   (IF ~wrapping \/ lines[i + 1].line_index = RULER_INDEX
                    THEN <<DisplayLine(i, 0)>>
                    ELSE wrap_loop(i, 0, Len(lines[i + 1].text), width))],
              LAMBDA next : layout_loop(lines, i + 1, width, wrapping, next))

\* SelectedContent.layout(height, width, wrapping) once its asserts passed
SelectedContent_layout(lines, height, width, wrapping) ==
    layout_loop(lines, 0, width, wrapping, DisplayContent)

---------------------------------------------------------------------------
(* storage.py: Store. The directory is the set of the names of its slot    *)
(* files without the suffix, each a string of digits.                      *)

\* The digit of value d
DigitChar(d) == CHOOSE c \in Digits : DigitVal(c) = d

\* max(ids)
max(ids) == CHOOSE x \in ids : \A y \in ids : y <= x

\* str(n) for n >= 0: its digits, most significant first
RECURSIVE str(_)
str(n) ==
    IF n < 10 THEN <<DigitChar(n)>>
    ELSE Append(str(n \div 10), DigitChar(n % 10))

\* _slot_id_to_prefix(idx): f'{idx:03}', zeros on the left up to 3 digits
slot_id_to_prefix(idx) ==
    LET s == str(idx)
    IN IF Len(s) >= 3 THEN s
       ELSE [i \in 1..3 |-> IF i <= 3 - Len(s) THEN "0"
                            ELSE s[i - (3 - Len(s))]]

\* s < t for strings: the order sorted() puts the paths of one directory in
RECURSIVE str_less(_, _)
str_less(s, t) ==
    IF t = <<>> THEN FALSE
    ELSE IF s = <<>> THEN TRUE
    ELSE IF s[1] # t[1] THEN DigitVal(s[1]) < DigitVal(t[1])
    ELSE str_less(Tail(s), Tail(t))

\* sorted(names)
RECURSIVE sorted_names(_)
sorted_names(names) ==
    IF names = {} THEN <<>>
    ELSE LET first == CHOOSE s \in names :
                          \A t \in names \ {s} : str_less(s, t)
         IN <<first>> \o sorted_names(names \ {first})

\* Store._scan: the files sorted by path, their slot ids, the next slot id
scan(dir) ==
    LET files == sorted_names(dir)
        slot_ids == [i \in 1..Len(files) |-> to_int(files[i])]
    IN [files |-> files,
        slot_ids |-> slot_ids,
        next_slot_id |-> IF Len(slot_ids) <= 0 THEN 0
                         ELSE max(Range(slot_ids)) + 1]

\* Store.__init__(base_dir) on a directory that holds the files dir
Store(dir) == [dir |-> dir, scan |-> scan(dir), cur_idx |-> -1]

\* Store.save(obj): [store, returned slot id]
Store_save(s) ==
    LET saved == s.scan.next_slot_id
        dir == s.dir \cup {slot_id_to_prefix(saved)}
        sc == scan(dir)
    IN [s |-> [dir |-> dir, scan |-> sc, cur_idx |-> Len(sc.files) - 1],
        ret |-> saved]

\* returned by delete when there is no current slot
None == -1

\* Store.delete(): [store, returned slot id or None]
Store_delete(s) ==
    IF s.cur_idx < 0 THEN [s |-> s, ret |-> None]
    ELSE LET dir == s.dir \ {s.scan.files[s.cur_idx + 1]}
         IN [s |-> [dir |-> dir, scan |-> scan(dir), cur_idx |-> -1],
             ret |-> s.scan.slot_ids[s.cur_idx + 1]]

\* Store.can_load()
can_load(s) == Len(s.scan.files) > 0

\* Store.load(goto_next): [store, slot id of the object returned]
Store_load(s, goto_next) ==
    LET count == Len(s.scan.files)
        inc == IF goto_next THEN 1 ELSE -1
        cur == IF s.cur_idx < 0
               THEN (IF goto_next THEN count - 1 ELSE 0)
               ELSE s.cur_idx
        idx == (cur + inc) % count
    IN [s |-> [s EXCEPT !.cur_idx = idx], ret |-> s.scan.slot_ids[idx + 1]]

---------------------------------------------------------------------------
(* keys.py: KeyEvent and Processor. Times are whole tenths of a second.    *)

\* Special key that will result in app being polled
POLL == -1

UNMAP == -2

\* Number of tenths of a second to wait before canceling key escape sequence
ESCAPE_TIMEOUT == 1

\* curses.ascii.ESC, curses.KEY_UP, curses.KEY_MOUSE
ESC_KEY == 27

KEY_UP == 259

KEY_MOUSE == 409

\* ord(c) and chr(key) for the characters typed here; chr(KEY_UP) is the one
\* character of that code point
ord(c) == CASE c = "O" -> 79 [] c = "H" -> 72 [] c = "F" -> 70 [] c = "x" -> 120

chr(key) ==
    CASE key = 79 -> "O" [] key = 72 -> "H" [] key = 70 -> "F"
      [] key = 120 -> "x" [] key = KEY_UP -> "chr(KEY_UP)"
      [] key = KEY_MOUSE -> "chr(KEY_MOUSE)" [] key = ESC_KEY -> "chr(ESC)"

\* KEYS_TO_COMMAND, for the keys typed here
KEYS_TO_COMMAND ==
    [key \in {ord("x"), KEY_UP} |->
        IF key = KEY_UP THEN "GO_UP" ELSE "TOGGLE_HIDING"]

\* MOUSE_STATE_TO_CMD
MOUSE_STATE_TO_CMD ==
    [state \in {"BUTTON4_PRESSED", "BUTTON5_PRESSED"} |->
        IF state = "BUTTON4_PRESSED" THEN "GO_UP" ELSE "GO_DOWN"]

\* KEYS_TO_TEXT, for the keys typed here, and _key_to_text
KEYS_TO_TEXT ==
    [key \in {POLL, UNMAP, ESC_KEY, KEY_UP, KEY_MOUSE} |->
        CASE key = POLL -> <<"P", "O", "L", "L">>
          [] key = UNMAP -> <<"U", "N", "M", "A", "P">>
          [] key = ESC_KEY -> <<"E", "S", "C">>
          [] key = KEY_UP -> <<"U", "P">>
          [] key = KEY_MOUSE -> <<"M", "O", "U", "S", "E">>]

key_to_text(key) ==
    IF key \in DOMAIN KEYS_TO_TEXT THEN KEYS_TO_TEXT[key] ELSE <<chr(key)>>

\* cmd: Optional[enums.Command] = None
NoCommand == "None"

\* KeyEvent.__init__(key, text, cmd)
KeyEvent(key, text, cmd) ==
    [key |-> key,
     text |-> IF Len(text) <= 0 THEN key_to_text(key) ELSE text,
     cmd |-> IF cmd = NoCommand /\ key \in DOMAIN KEYS_TO_COMMAND
             THEN KEYS_TO_COMMAND[key] ELSE cmd]

\* Strings used for representing key combination
SHIFT == <<"[", "1", ";", "2">>

ALT == <<"[", "1", ";", "3">>

ALT_SHIFT == <<"[", "1", ";", "4">>

CTRL == <<"[", "1", ";", "5">>

CTRL_SHIFT == <<"[", "1", ";", "6">>

\* ESCAPED_TO_COMMAND as the set of its <<sequence, command>> items
EscapedItems ==
    {<<(<<chr(KEY_UP)>>), "ROTATE_FILTERS_UP">>,
     <<CTRL \o <<"A">>, "ROTATE_FILTERS_UP">>,
     <<CTRL_SHIFT \o <<"A">>, "ROTATE_FILTERS_UP">>,
     <<ALT \o <<"A">>, "ROTATE_FILTERS_UP">>,
     <<(<<"chr(KEY_DOWN)">>), "ROTATE_FILTERS_DOWN">>,
     <<CTRL \o <<"B">>, "ROTATE_FILTERS_DOWN">>,
     <<ALT \o <<"B">>, "ROTATE_FILTERS_DOWN">>,
     <<CTRL_SHIFT \o <<"B">>, "ROTATE_FILTERS_DOWN">>,
     <<(<<"chr(KEY_LEFT)">>), "SWAP_FILTERS">>,
     <<CTRL \o <<"D">>, "SWAP_FILTERS">>,
     <<CTRL_SHIFT \o <<"D">>, "SWAP_FILTERS">>,
     <<ALT \o <<"D">>, "SWAP_FILTERS">>,
     <<(<<"chr(KEY_RIGHT)">>), "SWAP_FILTERS">>,
     <<CTRL \o <<"C">>, "SWAP_FILTERS">>,
     <<CTRL_SHIFT \o <<"C">>, "SWAP_FILTERS">>,
     <<ALT \o <<"C">>, "SWAP_FILTERS">>,
     <<SHIFT \o <<"A">>, "GO_PPAGE">>,
     <<SHIFT \o <<"B">>, "GO_NPAGE">>,
     <<SHIFT \o <<"D">>, "GO_SLEFT">>,
     <<SHIFT \o <<"C">>, "GO_SRIGHT">>,
     <<(<<"O", "H">>), "GO_HOME">>,
     <<(<<"O", "F">>), "GO_END">>}

ESCAPED_TO_COMMAND ==
    [seq \in {item[1] : item \in EscapedItems} |->
        (CHOOSE item \in EscapedItems : item[1] = seq)[2]]

\* Processor.__init__: _escaping, _seq, start_ (read only while escaping)
KeyProcessor == [escaping |-> FALSE, seq |-> <<>>, start |-> 0]

\* Processor._start_esc at time now
start_esc(p, now) == [escaping |-> TRUE, seq |-> <<>>, start |-> now]

\* Processor._stop_esc: the processor left; the sequence it returns is p.seq
stop_esc(p) == [p EXCEPT !.escaping = FALSE, !.seq = <<>>]

\* A poll while escaping always gives UNMAP
timed_out_key_unmap(seq) == UNMAP

\* The key of the event when a poll ends the escape sequence seq
timed_out_key(seq) == IF Len(seq) <= 0 THEN ESC_KEY ELSE UNMAP

\* An escaping processor that takes ESC for a key of the sequence
restart_never(key) == FALSE

\* if key == curses.ascii.ESC, while escaping
restart(key) == key = ESC_KEY

\* Processor.process(key) at time now, the mouse in the given state:
\* [p: the processor after the call, ev: the KeyEvent returned]
process(p, key, mouse, now) ==
    IF ~p.escaping
    THEN IF key = KEY_MOUSE
         THEN [p |-> p,
               ev |-> IF mouse \in DOMAIN MOUSE_STATE_TO_CMD
                      THEN KeyEvent(key, <<>>, MOUSE_STATE_TO_CMD[mouse])
                      ELSE KeyEvent(POLL, <<>>, NoCommand)]
         ELSE IF key = ESC_KEY
         THEN [p |-> start_esc(p, now), ev |-> KeyEvent(POLL, <<>>, NoCommand)]
         ELSE [p |-> p, ev |-> KeyEvent(key, <<>>, NoCommand)]
    ELSE IF restart(key)
    THEN [p |-> start_esc(p, now), ev |-> KeyEvent(POLL, <<>>, NoCommand)]
    ELSE IF key < 0
    THEN [p |-> stop_esc(p),
          ev |-> KeyEvent(timed_out_key(p.seq), p.seq, NoCommand)]
    ELSE IF now - p.start > ESCAPE_TIMEOUT
    THEN [p |-> stop_esc(p), ev |-> KeyEvent(key, <<>>, NoCommand)]
    ELSE LET seq == Append(p.seq, chr(key))
         IN IF seq \notin DOMAIN ESCAPED_TO_COMMAND
            THEN [p |-> [p EXCEPT !.seq = seq],
                  ev |-> KeyEvent(POLL, <<>>, NoCommand)]
            ELSE [p |-> stop_esc(p),
                  ev |-> KeyEvent(key, seq, ESCAPED_TO_COMMAND[seq])]

---------------------------------------------------------------------------
(* enums.AutoEnum, models.Filter and models.ViewConfig as used by TextView *)

\* The members of LineVisibility, ColorizeMode and SgrMode in the order of
\* their values
LineVisibilityOrder ==
    <<"ONLY_MATCHING", "CONTEXT_1", "CONTEXT_2", "CONTEXT_5", "ALL">>

SgrModeOrder == <<"PROCESS", "REMOVE", "NONE">>

ColorizeModeOrder == <<"KEYWORD_HIGHLIGHT", "KEYWORD", "LINE">>

\* raise ValueError('Unsupported enum value')
UnsupportedEnumValue == "ValueError: Unsupported enum value"

\* AutoEnum.from_int(i): the member of value i, ValueError when the loop
\* over the members finds none
from_int(order, i) ==
    IF \E k \in 1..Len(order) : k - 1 = i
    THEN order[CHOOSE k \in 1..Len(order) : k - 1 = i]
    ELSE UnsupportedEnumValue

\* member.value
enum_value(order, member) ==
    (CHOOSE i \in 1..Len(order) : order[i] = member) - 1

\* AutoEnum.get(i): i = i % len(cls.__members__), then from_int(i)
enum_get(order, i) == from_int(order, i % Len(order))

\* A get_next that stays on the last member
get_next_saturating(order, member) ==
    IF enum_value(order, member) + 1 >= Len(order) THEN member
    ELSE order[enum_value(order, member) + 2]

\* AutoEnum.get_next and AutoEnum.get_prev
get_next(order, member) == enum_get(order, enum_value(order, member) + 1)

get_prev(order, member) == enum_get(order, enum_value(order, member) - 1)

\* Filter.add(keyword): keywords is a dict, a key already there keeps its
\* place
Filter_add(f, keyword) ==
    IF \E i \in 1..Len(f.keywords) : f.keywords[i] = keyword THEN f
    ELSE [f EXCEPT !.keywords = Append(@, keyword)]

\* Filter.pop(): keywords.popitem() removes the key added last
Filter_pop(f) ==
    [f EXCEPT !.keywords = SubSeq(@, 1, Len(@) - 1)]

\* ViewConfig.__init__ and the class defaults; line_min stays 0
ViewConfig ==
    [filters |-> <<>>, wrap |-> TRUE, line_numbers |-> TRUE,
     bullets |-> FALSE, line_visibility |-> "ONLY_MATCHING",
     sgr_mode |-> "PROCESS", dirty |-> FALSE]

\* ViewConfig.has_filters, top_filter, push_filter, swap_filters,
\* rotate_filters
has_filters(cfg) == Len(cfg.filters) > 0

top_filter(cfg) == cfg.filters[Len(cfg.filters)]

push_filter(cfg, f) ==
    [cfg EXCEPT !.dirty = TRUE, !.filters = Append(@, f)]

swap_filters(cfg, i, j) ==
    [cfg EXCEPT !.dirty = TRUE,
                !.filters = [@ EXCEPT ![i + 1] = cfg.filters[j + 1],
                             ![j + 1] = cfg.filters[i + 1]]]

rotate_filters(cfg, go_up) ==
    LET fs == cfg.filters
        n == Len(fs)
    IN [cfg EXCEPT !.dirty = TRUE, !.filters =
           IF go_up THEN Tail(fs) \o <<Head(fs)>>
           ELSE <<fs[n]>> \o SubSeq(fs, 1, n - 1)]

\* The top filter replaced by f
set_top_filter(cfg, f) == [cfg EXCEPT !.filters[Len(cfg.filters)] = f]

---------------------------------------------------------------------------
(* views.py: TextView. A view is the record of its fields; raised names    *)
(* the assertion that failed in the last call, "" when none did.           *)

HeightWidthAssertion == "assert height > 0, assert width > 0"

VOffsetAssertion == "assert voffset == 0 or voffset < lines_count"

KeywordsAssertion == "assert len(keywords) > 0"

STATUS_EMPTY == ""

\* TextView.__init__
TextView ==
    [raw |-> <<>>, sgr |-> Processor, size |-> <<0, 0>>,
     content_size |-> <<0, 0>>, config |-> ViewConfig,
     selected |-> SelectedContent, display |-> DisplayContent,
     offsets |-> Offsets, raised |-> ""]

\* models.digits_count(number) for a number below 1000
digits_count(number) ==
    IF number < 10 THEN 1 ELSE IF number < 100 THEN 2 ELSE 3

\* _get_prefix_info().length: the line number and ' | ', or the bullet and a
\* space, or nothing
prefix_length(v) ==
    IF v.config.line_numbers THEN digits_count(Len(v.raw)) + 3
    ELSE IF v.config.wrap THEN (IF v.config.bullets THEN 2 ELSE 0)
    ELSE 0

\* A _layout that keeps voffset as it is
keep_v_offset_unclamped(o) == o

\* self.set_v_offset(self._offsets.voffset, False)
keep_v_offset(o) == set_v_offset(o, o.voffset).o

\* assert self._offsets.voffset == 0 or
\*     self._offsets.voffset < self._display.lines_count()
voffset_assert(o, dc) == o.voffset = 0 \/ o.voffset < lines_count(dc)

\* TextView._layout
TextView_layout(v) ==
    LET h == Max(0, v.size[1] - 1 - Len(v.config.filters))
        w == Max(0, v.size[2] - prefix_length(v))
    IN IF ~SelectedContent_layout_asserts(h, w)
       THEN [v EXCEPT !.content_size = <<h, w>>,
                      !.raised = HeightWidthAssertion]
       ELSE With(SelectedContent_layout(v.selected.lines, h, w,
                                        v.config.wrap), LAMBDA dc :
            With(keep_v_offset(layout(v.offsets, h, lines_count(dc))),
                 LAMBDA o :
            [v EXCEPT !.content_size = <<h, w>>,
                      !.display = dc,
                      !.offsets = o,
                      !.raised = IF voffset_assert(o, dc) THEN ""
                                 ELSE VOffsetAssertion]))

\* TextView._sync: the call gives filters, line_visibility and sgr_mode;
\* line_min, the parameter of RawContent.filter between filters and
\* line_mode, is ViewConfig.line_min, which is 0
TextView_sync(v) ==
    With(RawContent_filter(v.raw, v.sgr, v.config.filters, 0,
                           v.config.line_visibility, v.config.sgr_mode),
         LAMBDA r :
      IF r.raised
      THEN [v EXCEPT !.sgr = r.sgr, !.raised = KeywordsAssertion]
      ELSE TextView_layout(
               [v EXCEPT !.sgr = r.sgr,
                         !.selected = [lines |-> r.lines, hits |-> r.hits,
                                       raised |-> FALSE]]))

\* TextView.layout(h, w, y, x): the first call creates the window, a later
\* one resizes it and lays the content out
TextView_resize(v, h, w, has_win) ==
    IF has_win THEN TextView_layout([v EXCEPT !.size = <<h, w>>])
    ELSE [v EXCEPT !.size = <<h, w>>]

\* TextView.set_config(config)
TextView_set_config(v, cfg) == TextView_sync([v EXCEPT !.config = cfg])

\* TextView.set_lines(lines)
TextView_set_lines(v, lines) == TextView_sync([v EXCEPT !.raw = lines])

\* TextView._pop_filter
TextView_pop_filter(v) ==
    IF has_filters(v.config)
    THEN [v |-> TextView_sync(
                    [v EXCEPT !.config.filters = SubSeq(@, 1, Len(@) - 1)]),
          status |-> "Filter removed"]
    ELSE [v |-> v, status |-> "No filter to remove"]

\* len(keyword) of a keyword given as a pattern
keyword_len(keyword) ==
    CASE keyword.kind = "lit" -> Len(keyword.s)
      [] keyword.kind = "star" -> Len(keyword.s) + 1
      [] OTHER -> 1

\* re.compile(keyword) raises re.error: of the keywords here only '*' does
\* (nothing to repeat)
re_error(keyword) == keyword.kind = "star" /\ keyword.s = <<>>

\* keyword.lower() == keyword
is_lower(keyword) == \A i \in 1..Len(keyword.s) : lower(keyword.s[i]) = keyword.s[i]

\* A push_keyword that takes the empty keyword
rejects_keyword_invalid_only(keyword) ==
    IF re_error(keyword) THEN "Invalid python regex pattern" ELSE ""

\* The status push_keyword returns before it changes anything, "" if none
rejects_keyword(keyword) ==
    IF keyword_len(keyword) <= 0 THEN "No keyword added"
    ELSE IF re_error(keyword) THEN "Invalid python regex pattern"
    ELSE ""

\* TextView.push_keyword(keyword, new_filter)
TextView_push_keyword(v, keyword, new_filter) ==
    IF rejects_keyword(keyword) # ""
    THEN [v |-> v, status |-> rejects_keyword(keyword)]
    ELSE LET new == new_filter \/ ~has_filters(v.config)
             cfg == IF new
                    THEN push_filter(v.config,
                                     Filter(is_lower(keyword), FALSE, <<>>))
                    ELSE v.config
         IN [v |-> TextView_sync(
                       [v EXCEPT !.config =
                           set_top_filter(cfg, Filter_add(top_filter(cfg),
                                                          keyword))]),
             status |-> IF new THEN "New filter created"
                        ELSE "Keyword added"]

\* A _pop_keyword that never removes the filter
pops_filter_never(k_count) == FALSE

\* if k_count <= 1: return self._pop_filter()
pops_filter(k_count) == k_count <= 1

\* TextView._pop_keyword
TextView_pop_keyword(v) ==
    IF ~has_filters(v.config)
    THEN [v |-> v, status |-> "No keyword to remove"]
    ELSE IF pops_filter(Len(top_filter(v.config).keywords))
    THEN TextView_pop_filter(v)
    ELSE [v |-> TextView_sync(
                    [v EXCEPT !.config =
                        set_top_filter(@, Filter_pop(top_filter(@)))]),
          status |-> "Keyword removed"]

\* bool_to_text
bool_to_text(value) == IF value THEN "enabled" ELSE "disabled"

\* TextView._toggle_line_numbers, _toggle_wrap, _toggle_bullets
TextView_toggle_line_numbers(v) ==
    [v |-> TextView_layout([v EXCEPT !.config.line_numbers = ~@]),
     status |-> "Line numbers " \o bool_to_text(~v.config.line_numbers)]

TextView_toggle_wrap(v) ==
    [v |-> TextView_layout([v EXCEPT !.config.wrap = ~@]),
     status |-> "Line wrapping " \o bool_to_text(~v.config.wrap)]

TextView_toggle_bullets(v) ==
    [v |-> TextView_layout([v EXCEPT !.config.bullets = ~@]),
     status |-> "Bullets " \o bool_to_text(~v.config.bullets)]

\* TextView._cycle_line_visibility(forward); the status is the new mode
TextView_cycle_line_visibility(v, forward) ==
    LET mode == IF forward
                THEN get_next(LineVisibilityOrder, v.config.line_visibility)
                ELSE get_prev(LineVisibilityOrder, v.config.line_visibility)
    IN [v |-> TextView_sync([v EXCEPT !.config.line_visibility = mode]),
        status |-> mode]

\* TextView._cycle_sgr_mode(forward)
TextView_cycle_sgr_mode(v, forward) ==
    LET mode == IF forward THEN get_next(SgrModeOrder, v.config.sgr_mode)
                ELSE get_prev(SgrModeOrder, v.config.sgr_mode)
    IN [v |-> TextView_sync([v EXCEPT !.config.sgr_mode = mode]),
        status |-> mode]

\* TextView._toggle_ignore_case
TextView_toggle_ignore_case(v) ==
    IF ~has_filters(v.config)
    THEN [v |-> v, status |-> "Cannot change case sentitivity (no keyword)"]
    ELSE [v |-> TextView_sync(
                    [v EXCEPT !.config = set_top_filter(@,
                        [top_filter(@) EXCEPT !.ignore_case = ~@])]),
          status |-> "Ignore case set to "
                       \o ToString(~top_filter(v.config).ignore_case)]

\* TextView._toggle_hiding
TextView_toggle_hiding(v) ==
    IF ~has_filters(v.config)
    THEN [v |-> v, status |-> "Cannot change filter property (no filter)"]
    ELSE [v |-> TextView_sync(
                    [v EXCEPT !.config = set_top_filter(@,
                        [top_filter(@) EXCEPT !.hiding = ~@])]),
          status |-> IF top_filter(v.config).hiding
                     THEN "Lines matching filter are now shown"
                     ELSE "Lines matching filter are now hidden"]

\* TextView.swap_filters
TextView_swap_filters(v) ==
    LET count == Len(v.config.filters) IN
    IF count < 2 THEN [v |-> v, status |-> "Not enough filters"]
    ELSE [v |-> TextView_sync(
                    [v EXCEPT !.config = swap_filters(@, count - 1,
                                                      count - 2)]),
          status |-> "Filters swapped"]

\* TextView.rotate_filters(go_up)
TextView_rotate_filters(v, go_up) ==
    IF Len(v.config.filters) < 2
    THEN [v |-> v, status |-> "Not enough filters"]
    ELSE [v |-> TextView_sync(
                    [v EXCEPT !.config = rotate_filters(@, go_up)]),
          status |-> "Filters rotated"]

\* TextView.set_v_offset(offset, redraw)
TextView_set_v_offset(v, offset) ==
    [v |-> [v EXCEPT !.offsets = set_v_offset(@, offset).o],
     status |-> STATUS_EMPTY]

\* sys.maxsize, an offset above every display line; 2^31 - 1 here
maxsize == 2147483647

\* int(line_text) raises ValueError: the text is not an optional minus sign
\* followed by digits
ValueError(line_text) ==
    LET ds == IF line_text # <<>> /\ Head(line_text) = "-"
              THEN Tail(line_text) ELSE line_text
    IN ds = <<>> \/ \E i \in 1..Len(ds) : ds[i] \notin Digits

\* int(line_text)
int(line_text) ==
    IF Head(line_text) = "-" THEN 0 - to_int(Tail(line_text))
    ELSE to_int(line_text)

\* The for loop of goto_line over the display lines from index voffset on:
\* the voffset of the first one whose selected line has an index i >= line,
\* or -1 when the loop ends without a break
RECURSIVE goto_loop(_, _, _)
goto_loop(v, line, voffset) ==
    IF voffset >= Len(v.display.dlines) THEN -1
    ELSE IF v.selected.lines[v.display.dlines[voffset + 1].line_index + 1]
                .line_index >= line
    THEN voffset
    ELSE goto_loop(v, line, voffset + 1)

\* TextView.goto_line(line_text)
TextView_goto_line(v, line_text) ==
    IF ValueError(line_text) THEN [v |-> v, status |-> "Not a number"]
    ELSE LET line == int(line_text)
             found == goto_loop(v, line, 0)
         IN [v |-> IF line <= 0 THEN TextView_set_v_offset(v, 0).v
                   ELSE IF line >= lines_count(v.display)
                   THEN TextView_set_v_offset(v, maxsize).v
                   ELSE IF found >= 0
                   THEN TextView_set_v_offset(v, found).v
                   ELSE v,
             status |-> "Goto line " \o ToString(line)]

\* The exception of self._display.dlines[idline] past the end of the list
IndexError == "IndexError: list index out of range"

\* The while loop of _vscroll_to_match from selected line iline on: the
\* first display line of the first line found with a filter index, or
\* idline when the loop ends without a break
RECURSIVE match_loop(_, _, _, _)
match_loop(v, iline, direction, idline) ==
    IF ~(0 <= iline /\ iline < Len(v.selected.lines)) THEN idline
    ELSE IF v.selected.lines[iline + 1].filter_index >= 0
    THEN v.display.firstdlines[iline + 1]
    ELSE match_loop(v, iline + direction, direction, idline)

\* TextView._vscroll_to_match(starting, direction)
TextView_vscroll_to_match(v, starting, direction) ==
    LET idline == v.offsets.voffset IN
    IF idline >= Len(v.display.dlines)
    THEN [v |-> [v EXCEPT !.raised = IndexError], status |-> STATUS_EMPTY]
    ELSE LET iline == v.display.dlines[idline + 1].line_index
                        + (IF starting THEN 0 ELSE direction)
             after == TextView_set_v_offset(
                          v, match_loop(v, iline, direction, idline)).v
         IN [v |-> after,
             status |-> IF v.offsets.voffset = after.offsets.voffset
                        THEN (IF direction > 0 THEN "(END)" ELSE "(BEGIN)")
                        ELSE (IF direction > 0 THEN "Next match"
                              ELSE "Previous match")]

\* TextView._slot_save with the Store s:
\* [v, status, s: the Store after the call, saved: a slot was written]
TextView_slot_save(v, s) ==
    IF ~has_filters(v.config)
    THEN [v |-> v, status |-> "No filters to save", s |-> s, saved |-> FALSE]
    ELSE IF ~v.config.dirty
    THEN [v |-> v, status |-> "No change to save", s |-> s, saved |-> FALSE]
    ELSE With(Store_save(s), LAMBDA r :
           [v |-> [v EXCEPT !.config.dirty = FALSE],
            status |-> "Filters saved in slot " \o ToString(r.ret),
            s |-> r.s, saved |-> TRUE])

\* TextView._slot_delete with the Store s
TextView_slot_delete(v, s) ==
    With(Store_delete(s), LAMBDA r :
      IF r.ret # None
      THEN [v |-> [v EXCEPT !.config.dirty = TRUE],
            status |-> "Slot " \o ToString(r.ret) \o " deleted", s |-> r.s]
      ELSE [v |-> v,
            status |-> "No slot loaded. Cannot delete current slot.",
            s |-> r.s])

\* TextView._slot_load(goto_next) with the Store s, whose files hold the
\* objects pk
TextView_slot_load(v, s, pk, goto_next) ==
    IF ~can_load(s)
    THEN [v |-> v, status |-> "Nothing to load. All slots are empty.",
          s |-> s]
    ELSE With(Store_load(s, goto_next), LAMBDA r :
           [v |-> [TextView_sync([v EXCEPT !.config =
                                     pk[r.s.scan.files[r.s.cur_idx + 1]]])
                   EXCEPT !.config.dirty = FALSE],
            status |-> "Slot " \o ToString(r.ret) \o " loaded",
            s |-> r.s])

\* TextView.get_last_keyword: the number of keywords of the top filter
get_last_keyword_count(v) ==
    IF ~has_filters(v.config) THEN 0
    ELSE Len(top_filter(v.config).keywords)

\* Views.handle_key.edit_keyword with the text typed at the prompt
edit_keyword(v, keyword) ==
    LET count == get_last_keyword_count(v) IN
    IF count <= 0 THEN [v |-> v, status |-> "No keyword to edit"]
    ELSE IF keyword_len(keyword) <= 0
    THEN [v |-> v, status |-> "No change made"]
    ELSE With(TextView_pop_keyword(v).v, LAMBDA popped :
           [v |-> IF popped.raised # "" THEN popped
                  ELSE TextView_push_keyword(popped, keyword, count = 1).v,
            status |-> "Keyword updated"])

---------------------------------------------------------------------------
(* Argument sets *)

\* All segments inside 0..MaxPos with an attr of A
Segments(A) ==
    {x \in [start : 0..MaxPos, end : 0..MaxPos, attr : A] : x.start < x.end}

\* A layer: sorted by start, non-overlapping (touching allowed)
IsLayer(l) ==
    /\ \A i \in 1..Len(l) : l[i].start < l[i].end
    /\ \A i \in 1..(Len(l) - 1) : l[i].end <= l[i + 1].start

SeqsUpTo(S, n) == UNION {[1..k -> S] : k \in 0..n}

Layers(A) == {l \in SeqsUpTo(Segments(A), MaxSegs) : IsLayer(l)}

\* attrs of the segments of a bottom layer and of a top layer
BottomAttrs == {0, 1}

TopAttrs == {1, 2}

\* Number of layers handed to flatten
NumLayers == 3

\* attrs of the segments of layer i of flatten (1-based): the upper layers
\* are highlights of one filter each
LayerAttrs(i) == IF i = 1 THEN {0, 3} ELSE {i - 1}

\* Style tags of the sets handed to sort_and_merge
StyleTags == {0, 1}

\* Characters of the texts
Chars == {"a", "b", "A"}

Texts == SeqsUpTo(Chars, MaxText)

\* The keywords: a, b, A, ab, ^, $ and a*
Keywords ==
    {Pattern("lit", <<"a">>), Pattern("lit", <<"b">>), Pattern("lit", <<"A">>),
     Pattern("lit", <<"a", "b">>), Pattern("bol", <<>>), Pattern("eol", <<>>),
     Pattern("star", <<"a">>)}

\* The keywords of a filter: Filter.keywords is a dict used as an ordered
\* set, so a keyword occurs once
KeywordLists ==
    {l \in SeqsUpTo(Keywords, MaxKeywords) :
        Len(l) > 0 /\ \A i, j \in 1..Len(l) : i # j => l[i] # l[j]}


\* The lines of a file: "aab", a tab then "c", and "a" in bold (SGR 1)
LineChoices ==
    {<<"a", "a", "b">>, <<TAB, "c">>, <<ESC, "[", "1", "m", "a">>}

\* The filters of a stack: show "a", hide "b" and show "b"
FilterChoices ==
    {Filter(FALSE, FALSE, <<Pattern("lit", <<"a">>)>>),
     Filter(FALSE, TRUE, <<Pattern("lit", <<"b">>)>>),
     Filter(FALSE, FALSE, <<Pattern("lit", <<"b">>)>>)}

\* ViewConfig.line_min
LineMins == {0, 1}

---------------------------------------------------------------------------
(* The content pipeline before any content is loaded *)

\* RawContent.__init__, and no call of filter or draw made yet
PipeIdle ==
    /\ raw_lines = <<>>
    /\ sgr = Processor
    /\ filters = <<>>
    /\ line_min = 0
    /\ line_mode = "ALL"
    /\ sgr_mode = "NONE"
    /\ selected = SelectedContent
    /\ d_offset = 0
    /\ d_width = 0
    /\ drawn = <<>>

\* No Processor.filter call made yet
ProcIdle ==
    /\ sgr_in = <<>>
    /\ sgr_prev = Processor
    /\ sgr_out = [background |-> <<>>, line |-> <<>>]

\* TextView.__init__ and ViewConfig's defaults
ViewIdle ==
    /\ view_size = <<0, 0>>
    /\ content_size = <<0, 0>>
    /\ wrap = TRUE
    /\ line_numbers = TRUE
    /\ bullets = FALSE
    /\ display = DisplayContent
    /\ status = ""
    /\ v_arg = <<>>
    /\ ops = 0
    /\ dirty = FALSE

\* No AutoEnum call made, a Store on an empty directory, a new Processor
EnumIdle ==
    /\ e_order = <<>>
    /\ e_start = ""
    /\ e_cur = ""
    /\ e_nexts = 0
    /\ e_prevs = 0
    /\ e_arg = 0
    /\ e_ret = ""

StoreIdle ==
    /\ store = Store({})
    /\ pickles = <<>>
    /\ st_cur = None
    /\ st_ret = None

KeyIdle ==
    /\ kp = KeyProcessor
    /\ k_now = 0
    /\ k_key = POLL
    /\ k_ev = KeyEvent(POLL, <<>>, NoCommand)

LibIdle == EnumIdle /\ StoreIdle /\ KeyIdle

---------------------------------------------------------------------------
(* Specification of merge: the arguments are drawn, then merge is called *)

InitMerge ==
    /\ pc = "start"
    /\ bottom \in Layers(BottomAttrs)
    /\ top \in Layers(TopAttrs)
    /\ merged = <<>>
    /\ layers = <<>> /\ flat = <<>>
    /\ sm_in = {} /\ sm_out = <<>> /\ sm_prev = <<>>
    /\ it_start = 0 /\ it_end = 0 /\ it_segs = <<>> /\ pieces = <<>>
    /\ fm_text = <<>> /\ fm_keywords = <<>> /\ fm_ignore_case = FALSE
    /\ fm_attr = 0 /\ fm_ret = <<>>
    /\ PipeIdle
    /\ ProcIdle
    /\ ViewIdle
    /\ LibIdle
    /\ OffIdle

CallMerge ==
    /\ pc = "start"
    /\ merge_asserts(bottom, top)
    /\ merged' = merge(bottom, top)
    /\ pc' = "merge"
    /\ UNCHANGED <<fmvars, pipevars, offvars, procvars, viewvars,
                  libvars>>
    /\ UNCHANGED <<bottom, top, layers, flat, sm_in, sm_out, sm_prev,
                   it_start, it_end, it_segs, pieces>>

NextMerge == CallMerge

SpecMerge == InitMerge /\ [][NextMerge]_vars

---------------------------------------------------------------------------
(* Specification of flatten: the caller builds the list of layers, bottom *)
(* layer first, then calls flatten                                         *)

InitFlatten ==
    /\ pc = "start"
    /\ layers = <<>>
    /\ flat = <<>>
    /\ bottom = <<>> /\ top = <<>> /\ merged = <<>>
    /\ sm_in = {} /\ sm_out = <<>> /\ sm_prev = <<>>
    /\ it_start = 0 /\ it_end = 0 /\ it_segs = <<>> /\ pieces = <<>>
    /\ fm_text = <<>> /\ fm_keywords = <<>> /\ fm_ignore_case = FALSE
    /\ fm_attr = 0 /\ fm_ret = <<>>
    /\ PipeIdle
    /\ ProcIdle
    /\ ViewIdle
    /\ LibIdle
    /\ OffIdle

\* The caller appends one more layer to the list (segs.append)
AppendLayer ==
    /\ pc = "start"
    /\ Len(layers) < NumLayers
    /\ \E l \in Layers(LayerAttrs(Len(layers) + 1)) :
           layers' = Append(layers, l)
    /\ UNCHANGED <<fmvars, pipevars, offvars, procvars, viewvars,
                  libvars>>
    /\ UNCHANGED <<pc, bottom, top, merged, flat, sm_in, sm_out, sm_prev,
                   it_start, it_end, it_segs, pieces>>

CallFlatten ==
    /\ pc = "start"
    /\ Len(layers) > 0
    /\ flat' = flatten(layers)
    /\ pc' = "flatten"
    /\ UNCHANGED <<fmvars, pipevars, offvars, procvars, viewvars,
                  libvars>>
    /\ UNCHANGED <<bottom, top, merged, layers, sm_in, sm_out, sm_prev,
                   it_start, it_end, it_segs, pieces>>

NextFlatten == AppendLayer \/ CallFlatten

SpecFlatten == InitFlatten /\ [][NextFlatten]_vars

---------------------------------------------------------------------------
(* Specification of sort_and_merge: called on a set of same-style segments, *)
(* then called again on the list it returned                               *)

InitSortAndMerge ==
    /\ pc = "start"
    /\ sm_in \in UNION {SUBSET Segments({a}) : a \in StyleTags}
    /\ sm_out = <<>> /\ sm_prev = <<>>
    /\ bottom = <<>> /\ top = <<>> /\ merged = <<>>
    /\ layers = <<>> /\ flat = <<>>
    /\ it_start = 0 /\ it_end = 0 /\ it_segs = <<>> /\ pieces = <<>>
    /\ fm_text = <<>> /\ fm_keywords = <<>> /\ fm_ignore_case = FALSE
    /\ fm_attr = 0 /\ fm_ret = <<>>
    /\ PipeIdle
    /\ ProcIdle
    /\ ViewIdle
    /\ LibIdle
    /\ OffIdle

CallSortAndMerge ==
    /\ pc = "start"
    /\ sort_and_merge_asserts(sm_in)
    /\ sm_out' = sort_and_merge(sm_in)
    /\ pc' = "sort_and_merge"
    /\ UNCHANGED <<fmvars, pipevars, offvars, procvars, viewvars,
                  libvars>>
    /\ UNCHANGED <<bottom, top, merged, layers, flat, sm_in, sm_prev,
                   it_start, it_end, it_segs, pieces>>

\* sort_and_merge(sort_and_merge(S)): the list returned is the argument
CallSortAndMergeAgain ==
    /\ pc = "sort_and_merge"
    /\ sort_and_merge_asserts(Range(sm_out))
    /\ sm_prev' = sm_out
    /\ sm_out' = sort_and_merge(Range(sm_out))
    /\ pc' = "sort_and_merge_again"
    /\ UNCHANGED <<fmvars, pipevars, offvars, procvars, viewvars,
                  libvars>>
    /\ UNCHANGED <<bottom, top, merged, layers, flat, sm_in,
                   it_start, it_end, it_segs, pieces>>

NextSortAndMerge == CallSortAndMerge \/ CallSortAndMergeAgain

SpecSortAndMerge == InitSortAndMerge /\ [][NextSortAndMerge]_vars

---------------------------------------------------------------------------
(* Specification of iterate: any list of segments, any window *)

InitIterate ==
    /\ pc = "start"
    /\ it_start \in 0..MaxPos
    /\ it_end \in 0..MaxPos
    /\ it_start < it_end
    /\ it_segs \in SeqsUpTo(Segments(BottomAttrs), MaxSegs)
    /\ pieces = <<>>
    /\ bottom = <<>> /\ top = <<>> /\ merged = <<>>
    /\ layers = <<>> /\ flat = <<>>
    /\ sm_in = {} /\ sm_out = <<>> /\ sm_prev = <<>>
    /\ fm_text = <<>> /\ fm_keywords = <<>> /\ fm_ignore_case = FALSE
    /\ fm_attr = 0 /\ fm_ret = <<>>
    /\ PipeIdle
    /\ ProcIdle
    /\ ViewIdle
    /\ LibIdle
    /\ OffIdle

CallIterate ==
    /\ pc = "start"
    /\ iterate_asserts(it_start, it_end, it_segs)
    /\ pieces' = iterate(it_start, it_end, it_segs)
    /\ pc' = "iterate"
    /\ UNCHANGED <<fmvars, pipevars, offvars, procvars, viewvars,
                  libvars>>
    /\ UNCHANGED <<bottom, top, merged, layers, flat, sm_in, sm_out, sm_prev,
                   it_start, it_end, it_segs>>

NextIterate == CallIterate

SpecIterate == InitIterate /\ [][NextIterate]_vars

---------------------------------------------------------------------------
(* Specification of find_matching *)

InitFindMatching ==
    /\ pc = "start"
    /\ fm_text \in Texts
    /\ fm_keywords \in KeywordLists
    /\ fm_ignore_case \in BOOLEAN
    /\ fm_attr \in StyleTags
    /\ fm_ret = <<>>
    /\ bottom = <<>> /\ top = <<>> /\ merged = <<>>
    /\ layers = <<>> /\ flat = <<>>
    /\ sm_in = {} /\ sm_out = <<>> /\ sm_prev = <<>>
    /\ it_start = 0 /\ it_end = 0 /\ it_segs = <<>> /\ pieces = <<>>
    /\ PipeIdle
    /\ ProcIdle
    /\ ViewIdle
    /\ LibIdle
    /\ OffIdle

CallFindMatching ==
    /\ pc = "start"
    /\ Len(fm_keywords) > 0
    /\ fm_ret' = find_matching(fm_text, fm_keywords, fm_ignore_case, fm_attr)
    /\ pc' = "find_matching"
    /\ UNCHANGED <<fm_text, fm_keywords, fm_ignore_case, fm_attr>>
    /\ UNCHANGED <<segvars, pipevars, offvars, procvars, viewvars,
                  libvars>>

NextFindMatching == CallFindMatching

SpecFindMatching == InitFindMatching /\ [][NextFindMatching]_vars

---------------------------------------------------------------------------
(* Specification of the content pipeline: lines are loaded, filtered, and  *)
(* the selected lines are drawn, or filtered once more                     *)

InitFilter ==
    /\ pc = "start"
    /\ PipeIdle
    /\ ProcIdle
    /\ ViewIdle
    /\ LibIdle
    /\ OffIdle
    /\ bottom = <<>> /\ top = <<>> /\ merged = <<>>
    /\ layers = <<>> /\ flat = <<>>
    /\ sm_in = {} /\ sm_out = <<>> /\ sm_prev = <<>>
    /\ it_start = 0 /\ it_end = 0 /\ it_segs = <<>> /\ pieces = <<>>
    /\ fm_text = <<>> /\ fm_keywords = <<>> /\ fm_ignore_case = FALSE
    /\ fm_attr = 0 /\ fm_ret = <<>>

\* RawContent.set_lines(lines)
SetLines ==
    /\ pc = "start"
    /\ \E lines \in SeqsUpTo(LineChoices, MaxLines) : raw_lines' = lines
    /\ pc' = "set_lines"
    /\ UNCHANGED <<segvars, fmvars, offvars, procvars, viewvars,
                  libvars>>
    /\ UNCHANGED <<sgr, filters, line_min, line_mode, sgr_mode, selected,
                   d_offset, d_width, drawn>>

\* RawContent.filter(filters, line_min, line_mode, sgr_mode)
CallFilter ==
    /\ pc = "set_lines"
    /\ \E fs \in SeqsUpTo(FilterChoices, MaxFilters), lmin \in LineMins,
          lmode \in LineVisibility, smode \in SgrMode :
           \E r \in {RawContent_filter(raw_lines, sgr, fs, lmin, lmode,
                                       smode)} :
              /\ filters' = fs
              /\ line_min' = lmin
              /\ line_mode' = lmode
              /\ sgr_mode' = smode
              /\ sgr' = r.sgr
              /\ selected' = [lines |-> r.lines, hits |-> r.hits,
                              raised |-> r.raised]
    /\ pc' = "filter"
    /\ UNCHANGED <<segvars, fmvars, offvars, procvars, viewvars,
                  libvars>>
    /\ UNCHANGED <<raw_lines, d_offset, d_width, drawn>>

\* View.draw: every selected line but the rulers goes through
\* _draw_content, which walks iterate(offset, offset + width, segs)
Draw ==
    /\ pc = "filter"
    /\ ~selected.raised
    /\ \E offset \in 0..MaxOffset, width \in 1..MaxWidth :
           /\ d_offset' = offset
           /\ d_width' = width
           /\ drawn' = [k \in 1..Len(selected.lines) |->
                  IF selected.lines[k].line_index = RULER_INDEX THEN <<>>
                  ELSE iterate(offset, offset + width,
                               selected.lines[k].segments)]
    /\ pc' = "draw"
    /\ UNCHANGED <<segvars, fmvars, offvars, procvars, viewvars,
                  libvars>>
    /\ UNCHANGED <<raw_lines, sgr, filters, line_min, line_mode, sgr_mode,
                   selected>>

\* RawContent.filter called once more on the same RawContent with the
\* arguments of the call before
CallFilterAgain ==
    /\ pc = "filter"
    /\ ~selected.raised
    /\ \E r \in {RawContent_filter(raw_lines, sgr, filters, line_min,
                                    line_mode, sgr_mode)} :
          /\ sgr' = r.sgr
          /\ selected' = [lines |-> r.lines, hits |-> r.hits,
                          raised |-> r.raised]
    /\ pc' = "filter_again"
    /\ UNCHANGED <<segvars, fmvars, offvars, procvars, viewvars,
                  libvars>>
    /\ UNCHANGED <<raw_lines, filters, line_min, line_mode, sgr_mode,
                   d_offset, d_width, drawn>>

NextFilter == SetLines \/ CallFilter \/ CallFilterAgain \/ Draw

SpecFilter == InitFilter /\ [][NextFilter]_vars

---------------------------------------------------------------------------
(* Specification of the context window: a file of short lines is read line *)
(* by line and filtered once                                               *)

\* The lines of the file: "a" and "c"
ContextLines == {<<"a">>, <<"c">>}

\* The filter stacks: show "a"; show "a" under hide "c"; hide "c"; none
ContextStacks ==
    {<<Filter(FALSE, FALSE, <<Pattern("lit", <<"a">>)>>)>>,
     <<Filter(FALSE, FALSE, <<Pattern("lit", <<"a">>)>>),
       Filter(FALSE, TRUE, <<Pattern("lit", <<"c">>)>>)>>,
     <<Filter(FALSE, TRUE, <<Pattern("lit", <<"c">>)>>)>>,
     <<>>}

InitContext == InitFilter

\* One more line of the file is read and stored
ReadLine ==
    /\ pc = "start"
    /\ Len(raw_lines) < MaxFileLines
    /\ \E line \in ContextLines : raw_lines' = Append(raw_lines, line)
    /\ UNCHANGED <<pc, segvars, fmvars, offvars, procvars, viewvars,
                  libvars>>
    /\ UNCHANGED <<sgr, filters, line_min, line_mode, sgr_mode, selected,
                   d_offset, d_width, drawn>>

\* RawContent.filter(filters, line_min, line_mode, sgr_mode) on the file
FilterFile ==
    /\ pc = "start"
    /\ \E fs \in ContextStacks, lmin \in LineMins, lmode \in LineVisibility,
          smode \in SgrMode :
           \E r \in {RawContent_filter(raw_lines, sgr, fs, lmin, lmode,
                                       smode)} :
              /\ filters' = fs
              /\ line_min' = lmin
              /\ line_mode' = lmode
              /\ sgr_mode' = smode
              /\ sgr' = r.sgr
              /\ selected' = [lines |-> r.lines, hits |-> r.hits,
                              raised |-> r.raised]
    /\ pc' = "filter"
    /\ UNCHANGED <<segvars, fmvars, offvars, procvars, viewvars,
                  libvars>>
    /\ UNCHANGED <<raw_lines, d_offset, d_width, drawn>>

NextContext == ReadLine \/ FilterFile

SpecContext == InitContext /\ [][NextContext]_vars

---------------------------------------------------------------------------
(* Specification of Offsets: layout and set_v_offset calls in any order,   *)
(* and set_v_offset called again with the voffset it has just stored       *)

\* The offsets requested: around the range of the content, and far outside
OffsetArgs == (-2..(MaxContent + 2)) \cup {-1000000, 1000000}

InitOffsets ==
    /\ pc = "start"
    /\ OffIdle
    /\ PipeIdle
    /\ ProcIdle
    /\ ViewIdle
    /\ LibIdle
    /\ bottom = <<>> /\ top = <<>> /\ merged = <<>>
    /\ layers = <<>> /\ flat = <<>>
    /\ sm_in = {} /\ sm_out = <<>> /\ sm_prev = <<>>
    /\ it_start = 0 /\ it_end = 0 /\ it_segs = <<>> /\ pieces = <<>>
    /\ fm_text = <<>> /\ fm_keywords = <<>> /\ fm_ignore_case = FALSE
    /\ fm_attr = 0 /\ fm_ret = <<>>

\* Offsets.layout(available_height, content_lines_count)
Layout ==
    /\ \E available_height \in 0..MaxHeight,
          content_lines_count \in 0..MaxContent :
           /\ layout_asserts(available_height, content_lines_count)
           /\ offsets' = layout(offsets, available_height,
                                content_lines_count)
    /\ pc' = "layout"
    /\ UNCHANGED <<o_prev, o_arg, o_ret>>
    /\ UNCHANGED <<segvars, fmvars, pipevars, procvars, viewvars,
                  libvars>>

\* Offsets.set_v_offset(offset)
SetVOffset ==
    /\ \E offset \in OffsetArgs :
           /\ o_arg' = offset
           /\ offsets' = set_v_offset(offsets, offset).o
           /\ o_ret' = set_v_offset(offsets, offset).ret
    /\ o_prev' = offsets
    /\ pc' = "set_v_offset"
    /\ UNCHANGED <<segvars, fmvars, pipevars, procvars, viewvars,
                  libvars>>

\* set_v_offset(voffset), straight after a set_v_offset call
SetVOffsetAgain ==
    /\ pc = "set_v_offset"
    /\ o_arg' = offsets.voffset
    /\ offsets' = set_v_offset(offsets, offsets.voffset).o
    /\ o_ret' = set_v_offset(offsets, offsets.voffset).ret
    /\ o_prev' = offsets
    /\ pc' = "set_v_offset_again"
    /\ UNCHANGED <<segvars, fmvars, pipevars, procvars, viewvars,
                  libvars>>

NextOffsets == Layout \/ SetVOffset \/ SetVOffsetAgain

SpecOffsets == InitOffsets /\ [][NextOffsets]_vars

---------------------------------------------------------------------------
(* Specification of the SGR processor: one Processor is given lines, one  *)
(* call of filter after the other, in any of the three modes               *)

\* What a line is made of: a plain character, the SGR sequences of bold (1),
\* reset (0) and black foreground (30), and the erase-in-line sequence K
Tokens ==
    {<<"a">>, <<ESC, "[", "1", "m">>, <<ESC, "[", "0", "m">>,
     <<ESC, "[", "3", "0", "m">>, <<ESC, "[", "K">>}

TokenLines == SeqsUpTo(Tokens, MaxTokens)

\* The characters of a line given as tokens
RECURSIVE Chars_of(_)
Chars_of(tokens) ==
    IF tokens = <<>> THEN <<>> ELSE Head(tokens) \o Chars_of(Tail(tokens))

InitProcessor ==
    /\ pc = "start"
    /\ bottom = <<>> /\ top = <<>> /\ merged = <<>>
    /\ layers = <<>> /\ flat = <<>>
    /\ sm_in = {} /\ sm_out = <<>> /\ sm_prev = <<>>
    /\ it_start = 0 /\ it_end = 0 /\ it_segs = <<>> /\ pieces = <<>>
    /\ fm_text = <<>> /\ fm_keywords = <<>> /\ fm_ignore_case = FALSE
    /\ fm_attr = 0 /\ fm_ret = <<>>
    /\ PipeIdle
    /\ ProcIdle
    /\ ViewIdle
    /\ LibIdle
    /\ OffIdle

\* background, new_line = p.filter(line, mode)
ProcessorFilter ==
    /\ \E tokens \in TokenLines, mode \in SgrMode :
         \E r \in {sgr_filter(sgr, Chars_of(tokens), mode)} :
           /\ sgr_in' = tokens
           /\ sgr_mode' = mode
           /\ sgr_prev' = sgr
           /\ sgr' = r.st
           /\ sgr_out' = [background |-> r.background, line |-> r.line]
    /\ pc' = "sgr_filter"
    /\ UNCHANGED <<segvars, fmvars, offvars, viewvars,
                  libvars>>
    /\ UNCHANGED <<raw_lines, filters, line_min, line_mode, selected,
                   d_offset, d_width, drawn>>

NextProcessor == ProcessorFilter

SpecProcessor == InitProcessor /\ [][NextProcessor]_vars

---------------------------------------------------------------------------
(* Specification of SelectedContent.layout: a SelectedContent is built     *)
(* line by line, then laid out for a height, a width and a wrapping mode   *)

\* A text of n characters
RECURSIVE TextOfLen(_)
TextOfLen(n) == IF n = 0 THEN <<>> ELSE <<"a">> \o TextOfLen(n - 1)

InitLayout ==
    /\ pc = "start"
    /\ bottom = <<>> /\ top = <<>> /\ merged = <<>>
    /\ layers = <<>> /\ flat = <<>>
    /\ sm_in = {} /\ sm_out = <<>> /\ sm_prev = <<>>
    /\ it_start = 0 /\ it_end = 0 /\ it_segs = <<>> /\ pieces = <<>>
    /\ fm_text = <<>> /\ fm_keywords = <<>> /\ fm_ignore_case = FALSE
    /\ fm_attr = 0 /\ fm_ret = <<>>
    /\ PipeIdle
    /\ ProcIdle
    /\ ViewIdle
    /\ LibIdle
    /\ OffIdle

\* One more selected line: a gap marker, or the raw line of the same index
\* with a text of any length
SelectLine ==
    /\ pc = "start"
    /\ Len(selected.lines) < MaxSelected
    /\ \E n \in -1..MaxLineLen :
         selected' = [selected EXCEPT !.lines = Append(@,
             IF n = -1 THEN SelectedLine(RULER_INDEX, -1, <<>>, <<>>)
             ELSE SelectedLine(Len(selected.lines), -1, TextOfLen(n), <<>>))]
    /\ UNCHANGED <<pc, segvars, fmvars, offvars, procvars, viewvars,
                  libvars>>
    /\ UNCHANGED <<raw_lines, sgr, filters, line_min, line_mode, sgr_mode,
                   d_offset, d_width, drawn>>

\* display = selected.layout(height, width, wrapping)
CallLayout ==
    /\ pc = "start"
    /\ \E height \in 1..MaxHeight, width \in 1..MaxWidth, wrapping \in BOOLEAN :
         /\ SelectedContent_layout_asserts(height, width)
         /\ content_size' = <<height, width>>
         /\ wrap' = wrapping
         /\ display' = SelectedContent_layout(selected.lines, height, width,
                                              wrapping)
    /\ pc' = "selected_layout"
    /\ UNCHANGED <<segvars, fmvars, pipevars, offvars, procvars, libvars>>
    /\ UNCHANGED <<view_size, line_numbers, bullets, status, v_arg, ops, dirty>>

NextLayout == SelectLine \/ CallLayout

SpecLayout == InitLayout /\ [][NextLayout]_vars

---------------------------------------------------------------------------
(* Specification of TextView: the view is created, laid out and given the *)
(* lines of a file, then commands, resizes, reloads and configuration      *)
(* changes follow in any order until an assertion fails                    *)

\* Window sizes (lines, columns): the content is one or two columns wide
\* beside the line numbers, and one to three lines high
ViewSizes == {<<3, 5>>, <<4, 6>>}

\* The files: an empty one, and one of six lines whose second line is in
\* bold and whose last line is the longest
ViewFiles ==
    {<<>>,
     <<<<"b">>, <<ESC, "[", "1", "m", "b">>, <<"b">>, <<"a">>, <<"a">>,
       <<"a", "a", "b">>>>}

\* The keywords typed: a, b, the empty keyword and *
KeyA == Pattern("lit", <<"a">>)

KeyB == Pattern("lit", <<"b">>)

ViewKeywords == {KeyA, KeyB, Pattern("lit", <<>>), Pattern("star", <<>>)}

\* The configurations handed to set_config: the default one, one filter
\* without wrapping or line numbers, and two filters of which one hides
ViewConfigs ==
    {ViewConfig,
     [ViewConfig EXCEPT !.filters = <<Filter(TRUE, FALSE, <<KeyA>>)>>,
                        !.wrap = FALSE, !.line_numbers = FALSE],
     [ViewConfig EXCEPT !.filters = <<Filter(TRUE, FALSE, <<KeyA, KeyB>>),
                                      Filter(TRUE, TRUE, <<KeyB>>)>>,
                        !.line_visibility = "CONTEXT_1"]}

\* The slots found on disk when the program starts: none, or one that holds
\* a configuration of one filter saved by an earlier run
ViewSlots ==
    {<<>>,
     [name \in {slot_id_to_prefix(0)} |->
        [ViewConfig EXCEPT !.filters = <<Filter(TRUE, FALSE, <<KeyA>>)>>,
                           !.dirty = TRUE]]}

\* The texts typed for goto_line
GotoTexts ==
    {<<"x">>, <<>>, <<"-", "1">>} \cup {<<d>> : d \in Digits \ {"9"}}

\* The view as a record of the variables
View ==
    [raw |-> raw_lines, sgr |-> sgr, size |-> view_size,
     content_size |-> content_size,
     config |-> [filters |-> filters, wrap |-> wrap,
                 line_numbers |-> line_numbers, bullets |-> bullets,
                 line_visibility |-> line_mode, sgr_mode |-> sgr_mode,
                 dirty |-> dirty],
     selected |-> selected, display |-> display, offsets |-> offsets,
     raised |-> ""]

Assertions ==
    {HeightWidthAssertion, VOffsetAssertion, KeywordsAssertion, IndexError}

\* The view after a call: its fields, the status returned and the argument
\* given; pc names the call, or the assertion that failed in it
CalledView(name, v, st, arg) ==
    /\ raw_lines' = v.raw
    /\ sgr' = v.sgr
    /\ view_size' = v.size
    /\ content_size' = v.content_size
    /\ filters' = v.config.filters
    /\ wrap' = v.config.wrap
    /\ line_numbers' = v.config.line_numbers
    /\ bullets' = v.config.bullets
    /\ line_mode' = v.config.line_visibility
    /\ sgr_mode' = v.config.sgr_mode
    /\ dirty' = v.config.dirty
    /\ selected' = v.selected
    /\ display' = v.display
    /\ offsets' = v.offsets
    /\ o_prev' = offsets
    /\ status' = IF v.raised # "" THEN STATUS_EMPTY ELSE st
    /\ v_arg' = arg
    /\ pc' = IF v.raised # "" THEN v.raised ELSE name
    /\ UNCHANGED <<segvars, fmvars, procvars, enumvars, keyvars>>
    /\ UNCHANGED <<line_min, d_offset, d_width, drawn, o_arg, o_ret>>

\* A call that leaves the Store alone
Called(name, v, st, arg) ==
    /\ CalledView(name, v, st, arg)
    /\ UNCHANGED storevars

\* A call that may write the Store: s is the Store and pk the objects of
\* its files after the call
CalledStore(name, v, st, s, pk) ==
    /\ CalledView(name, v, st, <<>>)
    /\ store' = s
    /\ pickles' = pk
    /\ UNCHANGED <<st_cur, st_ret>>

\* The view exists, no assertion has failed and one more call may be made
Running ==
    /\ pc \notin {"start"} \cup Assertions
    /\ ops < MaxOps

InitView ==
    /\ pc = "start"
    /\ bottom = <<>> /\ top = <<>> /\ merged = <<>>
    /\ layers = <<>> /\ flat = <<>>
    /\ sm_in = {} /\ sm_out = <<>> /\ sm_prev = <<>>
    /\ it_start = 0 /\ it_end = 0 /\ it_segs = <<>> /\ pieces = <<>>
    /\ fm_text = <<>> /\ fm_keywords = <<>> /\ fm_ignore_case = FALSE
    /\ fm_attr = 0 /\ fm_ret = <<>>
    /\ raw_lines = TextView.raw
    /\ sgr = TextView.sgr
    /\ filters = ViewConfig.filters
    /\ line_min = 0
    /\ line_mode = ViewConfig.line_visibility
    /\ sgr_mode = ViewConfig.sgr_mode
    /\ selected = TextView.selected
    /\ d_offset = 0 /\ d_width = 0 /\ drawn = <<>>
    /\ ProcIdle
    /\ ViewIdle
    /\ EnumIdle
    /\ KeyIdle
    /\ \E saved \in ViewSlots :
         /\ store = Store(DOMAIN saved)
         /\ pickles = saved
    /\ st_cur = None
    /\ st_ret = None
    /\ OffIdle

\* Views.create: v.layout(h, w, y, x) on the new view, then
\* v.set_lines(lines)
ViewCreate ==
    /\ pc = "start"
    /\ \E size \in ViewSizes, lines \in ViewFiles :
         \E v \in {TextView_set_lines(
                       TextView_resize(View, size[1], size[2], FALSE),
                       lines)} :
           Called("create", v, STATUS_EMPTY, <<>>)
    /\ ops' = 0

\* v.layout(h, w, y, x) when the terminal is resized
ViewResize ==
    /\ Running
    /\ \E size \in ViewSizes :
         \E v \in {TextView_resize(View, size[1], size[2], TRUE)} :
           Called("layout", v, STATUS_EMPTY, size)
    /\ ops' = ops + 1

\* v.set_lines(lines) when the file is reloaded
ViewSetLines ==
    /\ Running
    /\ \E lines \in ViewFiles :
         \E v \in {TextView_set_lines(View, lines)} :
           Called("set_lines", v, STATUS_EMPTY, <<>>)
    /\ ops' = ops + 1

\* v.set_config(config)
ViewSetConfig ==
    /\ Running
    /\ \E cfg \in ViewConfigs :
         \E v \in {TextView_set_config(View, cfg)} :
           Called("set_config", v, STATUS_EMPTY, <<>>)
    /\ ops' = ops + 1

PushKeyword ==
    /\ Running
    /\ \E keyword \in ViewKeywords, new_filter \in BOOLEAN :
         \E r \in {TextView_push_keyword(View, keyword, new_filter)} :
           Called("push_keyword", r.v, r.status, keyword)
    /\ ops' = ops + 1

PopKeyword ==
    /\ Running
    /\ \E r \in {TextView_pop_keyword(View)} :
         Called("pop_keyword", r.v, r.status, <<>>)
    /\ ops' = ops + 1

PopFilter ==
    /\ Running
    /\ \E r \in {TextView_pop_filter(View)} :
         Called("pop_filter", r.v, r.status, <<>>)
    /\ ops' = ops + 1

SwapFilters ==
    /\ Running
    /\ \E r \in {TextView_swap_filters(View)} :
         Called("swap_filters", r.v, r.status, <<>>)
    /\ ops' = ops + 1

RotateFilters ==
    /\ Running
    /\ \E go_up \in BOOLEAN :
         \E r \in {TextView_rotate_filters(View, go_up)} :
           Called("rotate_filters", r.v, r.status, <<>>)
    /\ ops' = ops + 1

ToggleLineNumbers ==
    /\ Running
    /\ \E r \in {TextView_toggle_line_numbers(View)} :
         Called("toggle_line_numbers", r.v, r.status, <<>>)
    /\ ops' = ops + 1

ToggleWrap ==
    /\ Running
    /\ \E r \in {TextView_toggle_wrap(View)} :
         Called("toggle_wrap", r.v, r.status, <<>>)
    /\ ops' = ops + 1

ToggleBullets ==
    /\ Running
    /\ \E r \in {TextView_toggle_bullets(View)} :
         Called("toggle_bullets", r.v, r.status, <<>>)
    /\ ops' = ops + 1

ToggleIgnoreCase ==
    /\ Running
    /\ \E r \in {TextView_toggle_ignore_case(View)} :
         Called("toggle_ignore_case", r.v, r.status, <<>>)
    /\ ops' = ops + 1

ToggleHiding ==
    /\ Running
    /\ \E r \in {TextView_toggle_hiding(View)} :
         Called("toggle_hiding", r.v, r.status, <<>>)
    /\ ops' = ops + 1

CycleLineVisibility ==
    /\ Running
    /\ \E forward \in BOOLEAN :
         \E r \in {TextView_cycle_line_visibility(View, forward)} :
           Called("cycle_line_visibility", r.v, r.status, <<>>)
    /\ ops' = ops + 1

CycleSgrMode ==
    /\ Running
    /\ \E forward \in BOOLEAN :
         \E r \in {TextView_cycle_sgr_mode(View, forward)} :
           Called("cycle_sgr_mode", r.v, r.status, <<>>)
    /\ ops' = ops + 1

\* GO_UP, GO_DOWN, GO_HOME and GO_END: _vscroll(-1), _vscroll(1),
\* set_v_offset(0, True) and set_v_offset(sys.maxsize, True)
VScroll ==
    /\ Running
    /\ \E offset \in {offsets.voffset - 1, offsets.voffset + 1, 0, maxsize} :
         \E r \in {TextView_set_v_offset(View, offset)} :
           Called("set_v_offset", r.v, r.status, <<>>)
    /\ ops' = ops + 1

GotoLine ==
    /\ Running
    /\ \E line_text \in GotoTexts :
         \E r \in {TextView_goto_line(View, line_text)} :
           Called("goto_line", r.v, r.status, line_text)
    /\ ops' = ops + 1

\* VSCROLL_TO_NEXT_MATCH and VSCROLL_TO_PREV_MATCH:
\* _vscroll_to_match(False, 1) and _vscroll_to_match(False, -1)
VScrollToMatch ==
    /\ Running
    /\ \E direction \in {1, -1} :
         \E r \in {TextView_vscroll_to_match(View, FALSE, direction)} :
           Called(IF direction > 0 THEN "vscroll_to_next_match"
                  ELSE "vscroll_to_prev_match", r.v, r.status, <<>>)
    /\ ops' = ops + 1

\* Views.handle_key: edit_keyword with the text typed at the prompt
EditKeyword ==
    /\ Running
    /\ \E keyword \in ViewKeywords :
         \E r \in {edit_keyword(View, keyword)} :
           Called("edit_keyword", r.v, r.status, keyword)
    /\ ops' = ops + 1

\* SLOT_SAVE: the file written holds the configuration as it is when
\* pickled, before dirty is cleared
SlotSave ==
    /\ Running
    /\ \E r \in {TextView_slot_save(View, store)} :
         CalledStore("slot_save", r.v, r.status, r.s,
                     [name \in r.s.dir |->
                        IF name \in store.dir THEN pickles[name]
                        ELSE View.config])
    /\ ops' = ops + 1

\* SLOT_DELETE
SlotDelete ==
    /\ Running
    /\ \E r \in {TextView_slot_delete(View, store)} :
         CalledStore("slot_delete", r.v, r.status, r.s,
                     [name \in r.s.dir |-> pickles[name]])
    /\ ops' = ops + 1

\* SLOT_LOAD_NEXT and SLOT_LOAD_PREV
SlotLoad ==
    /\ Running
    /\ \E goto_next \in BOOLEAN :
         \E r \in {TextView_slot_load(View, store, pickles, goto_next)} :
           CalledStore("slot_load", r.v, r.status, r.s, pickles)
    /\ ops' = ops + 1

NextView ==
    \/ ViewCreate \/ ViewResize \/ ViewSetLines \/ ViewSetConfig
    \/ PushKeyword \/ PopKeyword \/ PopFilter \/ SwapFilters \/ RotateFilters
    \/ ToggleLineNumbers \/ ToggleWrap \/ ToggleBullets
    \/ ToggleIgnoreCase \/ ToggleHiding
    \/ CycleLineVisibility \/ CycleSgrMode
    \/ VScroll \/ GotoLine \/ VScrollToMatch
    \/ EditKeyword
    \/ SlotSave \/ SlotDelete \/ SlotLoad

SpecView == InitView /\ [][NextView]_vars

---------------------------------------------------------------------------
(* Specification of AutoEnum: a class and a member are drawn, then         *)
(* get_next, get_prev and from_int are called in any order                 *)

EnumOrders == {LineVisibilityOrder, ColorizeModeOrder, SgrModeOrder}

InitEnum ==
    /\ pc = "start"
    /\ e_order \in EnumOrders
    /\ e_start \in Range(e_order)
    /\ e_cur = e_start
    /\ e_nexts = 0
    /\ e_prevs = 0
    /\ e_arg = 0
    /\ e_ret = ""
    /\ StoreIdle
    /\ KeyIdle
    /\ OffIdle
    /\ PipeIdle
    /\ ProcIdle
    /\ ViewIdle
    /\ bottom = <<>> /\ top = <<>> /\ merged = <<>>
    /\ layers = <<>> /\ flat = <<>>
    /\ sm_in = {} /\ sm_out = <<>> /\ sm_prev = <<>>
    /\ it_start = 0 /\ it_end = 0 /\ it_segs = <<>> /\ pieces = <<>>
    /\ fm_text = <<>> /\ fm_keywords = <<>> /\ fm_ignore_case = FALSE
    /\ fm_attr = 0 /\ fm_ret = <<>>

\* member.get_next() on the member returned last
GetNext ==
    /\ e_nexts < MaxCalls
    /\ e_cur' = get_next(e_order, e_cur)
    /\ e_nexts' = e_nexts + 1
    /\ pc' = "get_next"
    /\ UNCHANGED <<e_order, e_start, e_prevs, e_arg, e_ret>>
    /\ UNCHANGED <<segvars, fmvars, pipevars, offvars, procvars, viewvars,
                   storevars, keyvars>>

\* member.get_prev() on the member returned last
GetPrev ==
    /\ e_prevs < MaxCalls
    /\ e_cur' = get_prev(e_order, e_cur)
    /\ e_prevs' = e_prevs + 1
    /\ pc' = "get_prev"
    /\ UNCHANGED <<e_order, e_start, e_nexts, e_arg, e_ret>>
    /\ UNCHANGED <<segvars, fmvars, pipevars, offvars, procvars, viewvars,
                   storevars, keyvars>>

\* cls.from_int(i)
FromInt ==
    /\ \E i \in (0 - MaxCalls)..(2 * MaxCalls) :
         /\ e_arg' = i
         /\ e_ret' = from_int(e_order, i)
    /\ pc' = "from_int"
    /\ UNCHANGED <<e_order, e_start, e_cur, e_nexts, e_prevs>>
    /\ UNCHANGED <<segvars, fmvars, pipevars, offvars, procvars, viewvars,
                   storevars, keyvars>>

NextEnum == GetNext \/ GetPrev \/ FromInt

SpecEnum == InitEnum /\ [][NextEnum]_vars

---------------------------------------------------------------------------
(* Specification of Store: a Store is made on a directory that earlier     *)
(* saves and deletes left, then save, delete and load are called in any    *)
(* order                                                                   *)

\* The slot id of the one file a directory holds when the Store is made
FirstIds == {0, 998}

StoreDirs == {{}} \cup {{slot_id_to_prefix(f)} : f \in FirstIds}

\* The slot ids the saves may take: MaxSaves ids from a first id on
SaveAllowed(next) ==
    \E f \in FirstIds : f <= next /\ next < f + MaxSaves

\* The id of a slot when there is one
SlotIdOrNone(ids, idx) == IF idx < 0 THEN None ELSE ids[idx + 1]

InitStore ==
    /\ pc = "start"
    /\ \E dir \in StoreDirs :
         /\ store = Store(dir)
         /\ pickles = [name \in dir |-> "obj"]
    /\ st_cur = None
    /\ st_ret = None
    /\ EnumIdle
    /\ KeyIdle
    /\ OffIdle
    /\ PipeIdle
    /\ ProcIdle
    /\ ViewIdle
    /\ bottom = <<>> /\ top = <<>> /\ merged = <<>>
    /\ layers = <<>> /\ flat = <<>>
    /\ sm_in = {} /\ sm_out = <<>> /\ sm_prev = <<>>
    /\ it_start = 0 /\ it_end = 0 /\ it_segs = <<>> /\ pieces = <<>>
    /\ fm_text = <<>> /\ fm_keywords = <<>> /\ fm_ignore_case = FALSE
    /\ fm_attr = 0 /\ fm_ret = <<>>

\* store.save(obj)
StoreSave ==
    /\ SaveAllowed(store.scan.next_slot_id)
    /\ \E r \in {Store_save(store)} :
         /\ store' = r.s
         /\ pickles' = [name \in r.s.dir |->
                           IF name \in store.dir THEN pickles[name]
                           ELSE "obj"]
         /\ st_ret' = r.ret
         /\ st_cur' = r.ret
    /\ pc' = "save"
    /\ UNCHANGED <<segvars, fmvars, pipevars, offvars, procvars, viewvars,
                   enumvars, keyvars>>

\* store.delete()
StoreDelete ==
    /\ \E r \in {Store_delete(store)} :
         /\ store' = r.s
         /\ pickles' = [name \in r.s.dir |-> pickles[name]]
         /\ st_ret' = r.ret
    /\ st_cur' = None
    /\ pc' = "delete"
    /\ UNCHANGED <<segvars, fmvars, pipevars, offvars, procvars, viewvars,
                   enumvars, keyvars>>

\* store.load(goto_next), which callers make when can_load()
StoreLoad ==
    /\ can_load(store)
    /\ \E goto_next \in BOOLEAN :
         \E r \in {Store_load(store, goto_next)} :
           /\ store' = r.s
           /\ st_ret' = r.ret
           /\ st_cur' = r.ret
    /\ pc' = "load"
    /\ UNCHANGED pickles
    /\ UNCHANGED <<segvars, fmvars, pipevars, offvars, procvars, viewvars,
                   enumvars, keyvars>>

NextStore == StoreSave \/ StoreDelete \/ StoreLoad

SpecStore == InitStore /\ [][NextStore]_vars

---------------------------------------------------------------------------
(* Specification of the key Processor: keys and polls arrive while time    *)
(* passes                                                                  *)

\* The keys getch returns: a poll, ESC, an arrow, the mouse, O, H and x
KeysTyped ==
    {POLL, ESC_KEY, KEY_UP, KEY_MOUSE, ord("O"), ord("H"), ord("x")}

\* The states getmouse returns: the wheel up, and one without a command
MouseStates == {"BUTTON4_PRESSED", "BUTTON1_PRESSED"}

InitKeys ==
    /\ pc = "start"
    /\ KeyIdle
    /\ EnumIdle
    /\ StoreIdle
    /\ OffIdle
    /\ PipeIdle
    /\ ProcIdle
    /\ ViewIdle
    /\ bottom = <<>> /\ top = <<>> /\ merged = <<>>
    /\ layers = <<>> /\ flat = <<>>
    /\ sm_in = {} /\ sm_out = <<>> /\ sm_prev = <<>>
    /\ it_start = 0 /\ it_end = 0 /\ it_segs = <<>> /\ pieces = <<>>
    /\ fm_text = <<>> /\ fm_keywords = <<>> /\ fm_ignore_case = FALSE
    /\ fm_attr = 0 /\ fm_ret = <<>>

\* proc.process(key); the mouse state is read for KEY_MOUSE only
KeyProcess ==
    /\ \E key \in KeysTyped :
         \E mouse \in IF key = KEY_MOUSE /\ ~kp.escaping THEN MouseStates
                      ELSE {"BUTTON1_PRESSED"} :
           \E r \in {process(kp, key, mouse, k_now)} :
             /\ Len(r.p.seq) <= MaxSeq
             /\ kp' = r.p
             /\ k_key' = key
             /\ k_ev' = r.ev
    /\ pc' = "process"
    /\ UNCHANGED k_now
    /\ UNCHANGED <<segvars, fmvars, pipevars, offvars, procvars, viewvars,
                   enumvars, storevars>>

\* A tenth of a second passes
Tick ==
    /\ k_now < MaxClock
    /\ k_now' = k_now + 1
    /\ pc' = "sleep"
    /\ UNCHANGED <<kp, k_key, k_ev>>
    /\ UNCHANGED <<segvars, fmvars, pipevars, offvars, procvars, viewvars,
                   enumvars, storevars>>

NextKeys == KeyProcess \/ Tick

SpecKeys == InitKeys /\ [][NextKeys]_vars

---------------------------------------------------------------------------
(* Properties of the segment algebra *)

\* No two segments of the list share a position
NonOverlapping(l) ==
    \A i, j \in 1..Len(l) : i # j => Cover(l[i]) \cap Cover(l[j]) = {}

\* The list is ascending by start
SortedByStart(l) ==
    \A i \in 1..(Len(l) - 1) : l[i].start <= l[i + 1].start

\* Number of times x occurs in the list
Occurrences(x, l) == Cardinality({i \in 1..Len(l) : l[i] = x})

\* C1: for two layers that are sorted and non-overlapping, merge returns a
\* list that is sorted by start and pairwise non-overlapping (so no piece of
\* bottom overlaps a top segment).
C1_MergeSortedNonOverlapping ==
    pc = "merge" => SortedByStart(merged) /\ NonOverlapping(merged)

\* C2: every segment of top occurs unchanged exactly once in
\* merge(bottom, top), and the result covers exactly the positions covered
\* by bottom or by top.
C2_MergeKeepsTopAndCover ==
    pc = "merge" =>
        /\ \A k \in 1..Len(top) : Occurrences(top[k], merged) = 1
        /\ CoverSeq(merged) = CoverSeq(bottom) \cup CoverSeq(top)

\* merge was called with a top segment that starts inside the first bottom
\* segment and ends inside the second one
C2_Witness ==
    /\ pc = "merge"
    /\ Len(bottom) = 2
    /\ \E k \in 1..Len(top) :
          /\ bottom[1].start < top[k].start /\ top[k].start < bottom[1].end
          /\ bottom[2].start < top[k].end /\ top[k].end < bottom[2].end

\* C3: for three sorted non-overlapping layers, flatten returns a list
\* without overlapping segments, in which every position covered by the
\* third layer is covered only by segments carrying the third layer's style.
C3_FlattenTopLayerWins ==
    pc = "flatten" /\ Len(layers) = 3 =>
        /\ NonOverlapping(flat)
        /\ \A i \in 1..Len(flat) :
              Cover(flat[i]) \cap CoverSeq(layers[3]) # {}
                  => flat[i].attr \in LayerAttrs(3)

\* The pieces are a left-to-right partition of [s, e) into non-empty pieces
IsPartition(ps, s, e) ==
    /\ Len(ps) > 0
    /\ ps[1].start = s
    /\ ps[Len(ps)].end = e
    /\ \A i \in 1..Len(ps) :
          ps[i].start < ps[i].end /\ s <= ps[i].start /\ ps[i].end <= e
    /\ \A i \in 1..(Len(ps) - 1) : ps[i].end = ps[i + 1].start

\* A matching piece lies inside a segment of its attr; a non-matching piece
\* has attr -1 and no position covered by a segment
FlagsAgree(ps, segs) ==
    \A i \in 1..Len(ps) :
        IF ps[i].is_match
        THEN \E k \in 1..Len(segs) :
                 segs[k].attr = ps[i].attr /\ Cover(ps[i]) \subseteq Cover(segs[k])
        ELSE ps[i].attr = -1 /\ Cover(ps[i]) \cap CoverSeq(segs) = {}

\* C4 as claimed: for any window and ANY list of segments with start < end,
\* the pieces partition the window and a piece is matching (with the
\* segment's attr) exactly when its positions are covered by a segment.
C4_IterateAnyList ==
    pc = "iterate" =>
        /\ IsPartition(pieces, it_start, it_end)
        /\ FlagsAgree(pieces, it_segs)

\* C4 amended: the pieces partition the window for any list; the flags agree
\* with the coverage when the list is ascending by start.
C4_IterateSortedList ==
    pc = "iterate" =>
        /\ IsPartition(pieces, it_start, it_end)
        /\ SortedByStart(it_segs) => FlagsAgree(pieces, it_segs)

\* iterate was called on a sorted list of two segments, the first starting
\* before the window and the second ending after it, and yielded a matching
\* piece for each
C4_Witness ==
    /\ pc = "iterate"
    /\ Len(it_segs) = 2
    /\ it_segs[1].start < it_start /\ it_start < it_segs[1].end
    /\ it_segs[1].end <= it_segs[2].start
    /\ it_segs[2].start < it_end /\ it_end < it_segs[2].end
    /\ Len(pieces) = 2
    /\ pieces[1].is_match /\ pieces[2].is_match

\* C6: sort_and_merge is idempotent: called on the list it returned, it
\* returns the same list.
C6_SortAndMergeIdempotent ==
    pc = "sort_and_merge_again" => sm_out = sm_prev

\* The second call was made after a first call that fused segments and kept
\* several
C6_Witness ==
    /\ pc = "sort_and_merge_again"
    /\ Cardinality(sm_in) >= 3
    /\ Len(sm_prev) >= 2
    /\ Len(sm_prev) < Cardinality(sm_in)

\* C7: sort_and_merge returns a list ascending by start whose consecutive
\* segments are separated by at least one uncovered position, every segment
\* keeps the style tag, and the list covers exactly the positions of S.
C7_SortAndMergeResult ==
    pc = "sort_and_merge" =>
        /\ SortedByStart(sm_out)
        /\ \A i \in 1..(Len(sm_out) - 1) : sm_out[i].end < sm_out[i + 1].start
        /\ \A i \in 1..Len(sm_out) : \A s \in sm_in : sm_out[i].attr = s.attr
        /\ CoverSeq(sm_out) = CoverSet(sm_in)

\* sort_and_merge was called on a set holding two touching segments and two
\* overlapping ones
C7_Witness ==
    /\ pc = "sort_and_merge"
    /\ \E a, b \in sm_in : a.end = b.start
    /\ \E a, b \in sm_in : a.start < b.start /\ b.start < a.end
    /\ Len(sm_out) >= 2

---------------------------------------------------------------------------
(* Properties of find_matching *)

\* The word w (a sequence of characters), found at position q of the text,
\* is a non-empty occurrence of pattern k
IsOccurrence(k, text, q, w, ignore_case) ==
    /\ Len(w) > 0
    /\ CASE k.kind = "lit" ->
               /\ Len(w) = Len(k.s)
               /\ \A i \in 1..Len(w) : char_eq(w[i], k.s[i], ignore_case)
         [] k.kind = "star" ->
               \A i \in 1..Len(w) : char_eq(w[i], k.s[1], ignore_case)
         [] OTHER -> FALSE

\* Pattern k has at least one non-empty occurrence in the text
HasOccurrence(k, text, ignore_case) ==
    \E q \in 0..Len(text) : \E e \in (q + 1)..Len(text) :
        IsOccurrence(k, text, q, SubSeq(text, q + 1, e), ignore_case)

\* C8: AND semantics: find_matching returns (True, segments) exactly when
\* every keyword has a non-empty occurrence in the line, and (False, [])
\* when some keyword has none.
C8_FindMatchingAnd ==
    pc = "find_matching" =>
        /\ fm_ret.matching <=>
              \A i \in 1..Len(fm_keywords) :
                  HasOccurrence(fm_keywords[i], fm_text, fm_ignore_case)
        /\ ~fm_ret.matching => fm_ret.segments = <<>>
        /\ fm_ret.matching => fm_ret.segments # <<>>

\* find_matching was called with two keywords, the first found in the text
\* and the second not, and with two keywords both found
C8_Witness ==
    /\ pc = "find_matching"
    /\ Len(fm_keywords) = 2
    /\ HasOccurrence(fm_keywords[1], fm_text, fm_ignore_case)
    /\ ~HasOccurrence(fm_keywords[2], fm_text, fm_ignore_case)
    /\ ~fm_ret.matching

\* C9: zero-length occurrences never count: a keyword whose occurrences are
\* all empty makes find_matching report no match, no returned segment has
\* start >= end, and the start < end assertion of sort_and_merge holds.
C9_NoEmptySegment ==
    pc = "find_matching" =>
        /\ ~fm_ret.raised
        /\ \A i \in 1..Len(fm_ret.segments) :
              fm_ret.segments[i].start < fm_ret.segments[i].end
        /\ (\E i \in 1..Len(fm_keywords) :
               \A j \in 1..Len(finditer(fm_keywords[i], fm_text,
                                        fm_ignore_case)) :
                   LET m == finditer(fm_keywords[i], fm_text,
                                     fm_ignore_case)[j]
                   IN m.start = m.end)
              => ~fm_ret.matching

\* find_matching was called with a keyword that has empty occurrences only,
\* after a keyword that is found
C9_Witness ==
    /\ pc = "find_matching"
    /\ Len(fm_keywords) = 2
    /\ HasOccurrence(fm_keywords[1], fm_text, fm_ignore_case)
    /\ Len(finditer(fm_keywords[2], fm_text, fm_ignore_case)) > 0
    /\ ~HasOccurrence(fm_keywords[2], fm_text, fm_ignore_case)
    /\ ~fm_ret.matching

---------------------------------------------------------------------------
(* Properties of the content pipeline *)

\* attr is the index of a filter, not a curses attribute of the background
IsFilterIndex(attr) == 0 <= attr /\ attr < COLOR_PAIR_UNIT

FilteredText(i) ==
    sgr_filter(Processor, replace_tabs(raw_lines[i]), sgr_mode).line

\* Every keyword of filter f has a non-empty occurrence in the text
MatchedBy(f, text) ==
    \A j \in 1..Len(f.keywords) :
        HasOccurrence(f.keywords[j], text, f.ignore_case)

\* C10: hide precedence: in every visibility mode and for every order of the
\* filter stack, a raw line matched by at least one hiding filter is not
\* among the selected lines returned by RawContent.filter, even when a
\* non-hiding filter matches it too.
C10_HidePrecedence ==
    pc \in {"filter", "draw"} =>
        \A i \in 1..Len(raw_lines) :
            (\E n \in 1..Len(filters) :
                 filters[n].hiding /\ MatchedBy(filters[n], FilteredText(i)))
            => \A k \in 1..Len(selected.lines) :
                   selected.lines[k].line_index # i - 1

\* filter was called in a context mode with a showing filter below a hiding
\* filter in the stack, on a file whose first line both filters match, and
\* it selected some other line
C10_Witness ==
    /\ pc = "filter"
    /\ line_mode = "CONTEXT_1"
    /\ line_min = 0
    /\ Len(raw_lines) > 0
    /\ Len(filters) = 2
    /\ ~filters[1].hiding /\ MatchedBy(filters[1], FilteredText(1))
    /\ filters[2].hiding /\ MatchedBy(filters[2], FilteredText(1))
    /\ Len(selected.lines) > 0
    /\ \A k \in 1..Len(selected.lines) : selected.lines[k].line_index # 0

\* Raw line i (1-based) is processed: its index is not below line_min
Processed(i) == i - 1 >= line_min

\* C11: the hit count returned by RawContent.filter has one entry per filter,
\* and entry k is the number of processed raw lines that filter k matches,
\* counted for hiding filters and for hidden lines as well; the count does
\* not depend on the visibility mode.
C11_HitsPerFilter ==
    pc \in {"filter", "draw"} =>
        /\ Len(selected.hits) = Len(filters)
        /\ \A k \in 1..Len(filters) :
              selected.hits[k] =
                  Cardinality({i \in 1..Len(raw_lines) :
                      Processed(i) /\ MatchedBy(filters[k], FilteredText(i))})

\* filter was called in only-matching mode with a showing filter and a
\* hiding filter that both match the same line: the line is hidden and both
\* filters count one hit
C11_Witness ==
    /\ pc = "filter"
    /\ line_mode = "ONLY_MATCHING"
    /\ Len(filters) = 2
    /\ ~filters[1].hiding /\ filters[2].hiding
    /\ selected.hits = <<1, 1>>
    /\ selected.lines = <<>>

---------------------------------------------------------------------------
(* Properties of the context window *)

\* The line_index of every selected line, in order; RULER_INDEX marks a gap
SelectedIndexes ==
    [k \in 1..Len(selected.lines) |-> selected.lines[k].line_index]

\* Raw line i (1-based) is matched by a filter of the stack that is hiding
\* (h = TRUE) or showing (h = FALSE)
MatchedByKind(i, h) ==
    \E n \in 1..Len(filters) :
        filters[n].hiding = h /\ MatchedBy(filters[n], FilteredText(i))

\* The stack has a filter that is hiding (h = TRUE) or showing (h = FALSE)
HasKind(h) == \E n \in 1..Len(filters) : filters[n].hiding = h

\* The increasing sequence of the elements of a finite set of integers
RECURSIVE Ascending(_)
Ascending(S) ==
    IF S = {} THEN <<>>
    ELSE LET m == CHOOSE x \in S : \A y \in S : x <= y
         IN <<m>> \o Ascending(S \ {m})

\* The selected lines that are no gap marker
SelectedOriginals ==
    SelectSeq(SelectedIndexes, LAMBDA x : x # RULER_INDEX)

\* The file of the example: 8 lines of which exactly lines 3 and 7 match the
\* one showing filter, filtered whole with visibility context-1
ContextExample ==
    /\ pc = "filter"
    /\ line_mode = "CONTEXT_1"
    /\ line_min = 0
    /\ Len(filters) = 1 /\ ~filters[1].hiding
    /\ Len(raw_lines) = 8
    /\ \A i \in 1..8 :
           MatchedBy(filters[1], FilteredText(i)) <=> i - 1 \in {3, 7}

\* C12: in the context-window example the selected output is the original
\* lines 2, 3, 4, 6, 7 in that order plus exactly one gap marker, between
\* line 4 and line 6.
C12_OneGapMarker ==
    ContextExample => SelectedIndexes = <<2, 3, 4, RULER_INDEX, 6, 7>>

\* C12, as the code has it: the selected output is the original lines 2, 3,
\* 4, 6, 7 in that order plus two gap markers, one before line 2 (lines 0
\* and 1 are left out) and one between line 4 and line 6.
C12_TwoGapMarkers ==
    ContextExample =>
        SelectedIndexes = <<RULER_INDEX, 2, 3, 4, RULER_INDEX, 6, 7>>

\* The file of the example was filtered
C12_Witness ==
    /\ ContextExample
    /\ Len(selected.lines) = 7
    /\ selected.hits = <<2>>

\* The context size S requested, 0 when the mode asks for no context window
ContextSize ==
    CASE line_mode = "CONTEXT_1" -> 1
      [] line_mode = "CONTEXT_2" -> 2
      [] line_mode = "CONTEXT_5" -> 5
      [] OTHER -> 0

NotHidden ==
    {i - 1 : i \in {i \in 1..Len(raw_lines) :
        Processed(i) /\ ~MatchedByKind(i, TRUE)}}

\* C14: in only-matching mode with at least one non-hiding filter, the
\* selected lines are exactly the raw lines matched by a non-hiding filter
\* and by no hiding filter, in original order, without any gap marker.
C14_OnlyMatching ==
    (/\ pc \in {"filter", "draw"}
     /\ line_mode = "ONLY_MATCHING"
     /\ HasKind(FALSE)) =>
        SelectedIndexes =
            Ascending({i - 1 : i \in {i \in 1..Len(raw_lines) :
                /\ Processed(i)
                /\ MatchedByKind(i, FALSE)
                /\ ~MatchedByKind(i, TRUE)}})

\* filter was called in only-matching mode on a file whose first line no
\* filter matches and whose second line a showing filter matches
C14_Witness ==
    /\ pc = "filter"
    /\ line_mode = "ONLY_MATCHING"
    /\ line_min = 0
    /\ HasKind(FALSE)
    /\ Len(raw_lines) = 2
    /\ ~MatchedByKind(1, FALSE) /\ ~MatchedByKind(1, TRUE)
    /\ MatchedByKind(2, FALSE)
    /\ SelectedIndexes = <<1>>

\* C15: in all-lines mode every processed raw line that no hiding filter
\* matches is yielded exactly once, in original order, and no gap marker is
\* produced.
C15_AllLines ==
    (pc = "filter" /\ line_mode = "ALL") =>
        SelectedIndexes = Ascending(NotHidden)

\* A file of 8 lines was filtered in all-lines mode with a showing and a
\* hiding filter: some lines are hidden, some are selected
C15_Witness ==
    /\ pc = "filter"
    /\ line_mode = "ALL"
    /\ HasKind(FALSE) /\ HasKind(TRUE)
    /\ Len(raw_lines) = 8
    /\ MatchedByKind(1, TRUE) /\ MatchedByKind(2, FALSE)
    /\ MatchedByKind(5, TRUE)
    /\ Len(selected.lines) \in 1..6

\* C16: when no filter of the stack is a showing filter, RawContent.filter
\* returns the selected lines of all-lines mode whatever mode was requested:
\* every line not matched by a hiding filter, in order, without gap marker.
C16_AllHidingForcesAll ==
    (pc = "filter" /\ ~HasKind(FALSE)) =>
        SelectedIndexes = Ascending(NotHidden)

\* A file was filtered in only-matching mode with a stack of one hiding
\* filter: the lines it does not match are selected
C16_Witness ==
    /\ pc = "filter"
    /\ line_mode = "ONLY_MATCHING"
    /\ line_min = 0
    /\ Len(filters) = 1 /\ filters[1].hiding
    /\ Len(raw_lines) = 3
    /\ MatchedByKind(2, TRUE)
    /\ SelectedIndexes = <<0, 2>>

---------------------------------------------------------------------------
(* Properties of apply_filters *)

\* The state of the Processor when raw line i (1-based) is reached, the
\* processed lines before it having gone through it
RECURSIVE SgrBefore(_)
SgrBefore(i) ==
    IF i <= 1 THEN Processor
    ELSE IF ~Processed(i - 1) THEN SgrBefore(i - 1)
    ELSE sgr_filter(SgrBefore(i - 1), replace_tabs(raw_lines[i - 1]),
                    sgr_mode).st

\* The background layer of raw line i
Background(i) ==
    sgr_filter(SgrBefore(i), replace_tabs(raw_lines[i]), sgr_mode).background

\* The positions in the stack (1-based) of the showing filters that match
\* raw line i
ShowingMatches(i) ==
    {n \in 1..Len(filters) :
        ~filters[n].hiding /\ MatchedBy(filters[n], FilteredText(i))}

\* The layers handed to flatten for raw line i: the background, then the
\* segments of the matching showing filters in stack order
LineLayers(i) ==
    <<Background(i)>> \o
    [k \in 1..Cardinality(ShowingMatches(i)) |->
        LET n == Ascending(ShowingMatches(i))[k]
        IN find_matching(FilteredText(i), filters[n].keywords,
                         filters[n].ignore_case, n - 1).segments]

\* C17: for every selected line, filter_index is the smallest stack index of
\* a non-hiding filter that matches the line, or -1 when none matches; its
\* segments are the background layer flattened under the segments of all
\* matching non-hiding filters in stack order, and the background layer
\* alone when none matches.
C17_FirstShowingFilter ==
    pc \in {"filter", "draw"} =>
        \A k \in 1..Len(selected.lines) :
            LET l == selected.lines[k]
                i == l.line_index + 1
            IN l.line_index # RULER_INDEX =>
                  /\ i \in 1..Len(raw_lines)
                  /\ l.text = FilteredText(i)
                  /\ IF ShowingMatches(i) = {}
                     THEN /\ l.filter_index = -1
                          /\ l.segments = Background(i)
                     ELSE /\ l.filter_index + 1 \in ShowingMatches(i)
                          /\ \A n \in ShowingMatches(i) :
                                 l.filter_index + 1 <= n
                          /\ l.segments = flatten(LineLayers(i))

\* filter selected, with SGR processed, a bold line matched by the second
\* showing filter of the stack only, and a line matched by both filters
C17_Witness ==
    /\ pc = "filter"
    /\ sgr_mode = "PROCESS"
    /\ Len(filters) = 2
    /\ Len(selected.lines) = 2
    /\ selected.lines[1].filter_index = 1
    /\ Background(selected.lines[1].line_index + 1) # <<>>
    /\ selected.lines[2].filter_index = 0
    /\ ShowingMatches(selected.lines[2].line_index + 1) = {1, 2}

---------------------------------------------------------------------------
(* Properties of Offsets *)

\* The maximum of voffset: max(0, content_lines - available_height)
VMax == offsets.ymax

\* The descriptor that agrees with the position voffset
DescAgrees ==
    /\ offsets.voffset = VMax => offsets.voffset_desc \in {"BOT", "TOP"}
    /\ (offsets.voffset = VMax /\ VMax > 0) => offsets.voffset_desc = "BOT"
    /\ (offsets.voffset = 0 /\ VMax > 0) => offsets.voffset_desc = "TOP"
    /\ (0 < offsets.voffset /\ offsets.voffset < VMax) =>
           \E percent \in 0..99 :
               /\ percent * VMax <= offsets.voffset * 100
               /\ offsets.voffset * 100 < (percent + 1) * VMax
               /\ offsets.voffset_desc = ToString(percent) \o "%"

\* C18: after any sequence of layout and set_v_offset calls in which every
\* layout is followed by a set_v_offset call, voffset_desc agrees with the
\* position: TOP at the minimum, BOT at the maximum, and otherwise the
\* integer percentage floor(voffset * 100 / maximum), which is in 0..99.
C18_DescAgreesWithPosition ==
    pc \in {"set_v_offset", "set_v_offset_again"} => DescAgrees

\* The position that offset x is clamped to
Clamped(x, ymax) == Max(0, Min(x, Max(0, ymax)))

\* C19: set_v_offset(x) sets voffset to x clamped into [0, max(0,
\* content_lines - available_height)] for every integer x, and returns True
\* exactly when the stored voffset differs from its previous value.
C19_SetVOffsetClamps ==
    pc \in {"set_v_offset", "set_v_offset_again"} =>
        /\ offsets.voffset = Clamped(o_arg, offsets.ymax)
        /\ o_ret <=> offsets.voffset # o_prev.voffset

\* set_v_offset was called with a value far below 0 while voffset was above
\* 0, and with a value far above the maximum while voffset was below it
C19_Witness ==
    /\ pc = "set_v_offset"
    /\ \/ o_arg < -2 /\ o_prev.voffset > 0 /\ offsets.voffset = 0 /\ o_ret
       \/ /\ o_arg > MaxContent + 2 /\ o_prev.voffset < offsets.ymax
          /\ offsets.voffset = offsets.ymax /\ o_ret

\* C20: after set_v_offset(x), calling set_v_offset with the resulting
\* voffset returns False and leaves voffset and voffset_desc unchanged.
C20_SetVOffsetIdempotent ==
    pc = "set_v_offset_again" =>
        /\ ~o_ret
        /\ offsets.voffset = o_prev.voffset
        /\ offsets.voffset_desc = o_prev.voffset_desc

\* set_v_offset was called again with a voffset strictly between the
\* minimum and the maximum
C20_Witness ==
    /\ pc = "set_v_offset_again"
    /\ 0 < o_arg /\ o_arg < offsets.ymax
    /\ offsets.voffset = o_arg
    /\ offsets.voffset_desc \notin {"", "TOP", "BOT"}

---------------------------------------------------------------------------
(* Properties of the SGR processor *)

\* The tokens of a line that are escape sequences / plain characters
IsEscape(token) == token[1] = ESC

Bold == <<ESC, "[", "1", "m">>

Reset == <<ESC, "[", "0", "m">>

Black == <<ESC, "[", "3", "0", "m">>

EraseInLine == <<ESC, "[", "K">>

\* The characters of the plain tokens of a line, in order
RECURSIVE PlainOf(_)
PlainOf(tokens) ==
    IF tokens = <<>> THEN <<>>
    ELSE (IF IsEscape(Head(tokens)) THEN <<>> ELSE Head(tokens))
             \o PlainOf(Tail(tokens))

\* C30: in passthrough mode (NONE) the processor returns the line as given
\* and no segment; in strip-only mode (REMOVE) it returns the plain
\* characters of the line, every escape sequence removed, and no segment; in
\* both modes the state of the processor (_a, _s, _fg, _bg) is the one
\* before the call.
C30_PassthroughAndStripKeepState ==
    pc = "sgr_filter" =>
      /\ sgr_mode = "NONE" =>
           /\ sgr_out.line = Chars_of(sgr_in)
           /\ sgr_out.background = <<>>
           /\ sgr = sgr_prev
      /\ sgr_mode = "REMOVE" =>
           /\ sgr_out.line = PlainOf(sgr_in)
           /\ sgr_out.background = <<>>
           /\ sgr = sgr_prev

\* A line of a plain character and an escape sequence is stripped while a
\* bold is open
C30_Witness ==
    /\ pc = "sgr_filter"
    /\ sgr_mode = "REMOVE"
    /\ sgr_prev.a # 0
    /\ \E i, j \in 1..Len(sgr_in) : IsEscape(sgr_in[i]) /\ ~IsEscape(sgr_in[j])
    /\ sgr_out.line = <<"a">>

\* The plain characters of a line before its first escape sequence
RECURSIVE LeadingPlain(_)
LeadingPlain(tokens) ==
    IF tokens = <<>> \/ IsEscape(Head(tokens)) THEN 0
    ELSE 1 + LeadingPlain(Tail(tokens))

\* The escape sequences of the line are SGR sequences
OnlySgr(tokens) == \A i \in 1..Len(tokens) : tokens[i] # EraseInLine

NoEscape(tokens) == \A i \in 1..Len(tokens) : ~IsEscape(tokens[i])

\* One of the given codes is applied in the line after its last reset code 0
AppliedAfterLastReset(tokens, codes) ==
    \E i \in 1..Len(tokens) :
        /\ tokens[i] \in codes
        /\ \A j \in (i + 1)..Len(tokens) : tokens[j] # Reset

\* The last escape sequence of the line is the reset code 0
LastIsReset(tokens) ==
    \E i \in 1..Len(tokens) :
        /\ tokens[i] = Reset
        /\ \A j \in (i + 1)..Len(tokens) : ~IsEscape(tokens[j])

\* The line given to a call in process mode that follows a call in process
\* mode whose line left a style behind: its first segment runs from
\* position 0 to the first escape sequence, or to the end, in that style
CarriedSegment(tokens, background, attr) ==
    /\ background # <<>>
    /\ background[1] = Segment(0, LeadingPlain(tokens), attr)

---------------------------------------------------------------------------
(* Properties of recomputation *)

\* C28: a call of RawContent.filter on the same raw lines with the same
\* filters, line_min, visibility mode and SGR mode as the call before it
\* returns the same selected lines (indices, texts, segments) and the same
\* hit counts.
C28_FilterAgainSameResult ==
    [][pc' = "filter_again" => selected' = selected]_vars

---------------------------------------------------------------------------
(* Properties of SelectedContent.layout *)

\* The offsets of the display lines of selected line i (0-based), in the
\* order of the display lines
OffsetsOf(i) ==
    LET mine == SelectSeq(display.dlines, LAMBDA d : d.line_index = i)
    IN [k \in 1..Len(mine) |-> mine[k].offset]

\* ceil(a / b) for a >= 0 and b > 0
Ceil(a, b) == (a + b - 1) \div b

\* C22: with wrapping off every selected line has exactly one display line,
\* at offset 0; with wrapping on a selected line of text has
\* max(1, ceil(len(text) / width)) display lines at offsets 0, width,
\* 2 * width, ... in that order, and an empty line and a gap marker have
\* exactly one display line at offset 0.
C22_DisplayLinesOfSelectedLine ==
    pc = "selected_layout" =>
      \A i \in 0..(Len(selected.lines) - 1) :
        LET line == selected.lines[i + 1]
            width == content_size[2]
            count == IF ~wrap \/ line.line_index = RULER_INDEX THEN 1
                     ELSE Max(1, Ceil(Len(line.text), width))
        IN OffsetsOf(i) = [k \in 1..count |-> (k - 1) * width]

\* A gap marker, an empty line and a line of three characters are laid out
\* in a width of two with wrapping on: the last one takes two display lines
C22_Witness ==
    /\ pc = "selected_layout"
    /\ wrap
    /\ content_size[2] = 2
    /\ Len(selected.lines) = 3
    /\ selected.lines[1].line_index = RULER_INDEX
    /\ selected.lines[2].text = <<>>
    /\ Len(selected.lines[3].text) = 3
    /\ display.dlines = <<DisplayLine(0, 0), DisplayLine(1, 0),
                          DisplayLine(2, 0), DisplayLine(2, 2)>>

\* C23: firstdlines has one entry per selected line and is strictly
\* increasing; firstdlines[i] is the smallest index of a display line whose
\* line_index is i, and that display line has offset 0; the display lines
\* are in the order of the selected lines, so the display lines of one
\* selected line are next to each other.
C23_FirstDisplayLines ==
    pc = "selected_layout" =>
      /\ Len(display.firstdlines) = Len(selected.lines)
      /\ \A i \in 1..(Len(display.firstdlines) - 1) :
           display.firstdlines[i] < display.firstdlines[i + 1]
      /\ \A i \in 0..(Len(selected.lines) - 1) :
           LET first == display.firstdlines[i + 1] IN
           /\ first \in 0..(Len(display.dlines) - 1)
           /\ display.dlines[first + 1] = DisplayLine(i, 0)
           /\ \A d \in 0..(first - 1) : display.dlines[d + 1].line_index # i
      /\ \A d \in 1..(Len(display.dlines) - 1) :
           display.dlines[d].line_index <= display.dlines[d + 1].line_index

\* Two lines of three characters wrapped in a width of one: the second
\* selected line starts at display line 3
C23_Witness ==
    /\ pc = "selected_layout"
    /\ wrap
    /\ Len(selected.lines) >= 2
    /\ display.firstdlines[1] = 0
    /\ display.firstdlines[2] = 3
    /\ Len(display.dlines) >= 6

---------------------------------------------------------------------------
(* Properties of TextView *)

\* The largest voffset that leaves no blank line under the content
ViewVMax == Max(0, lines_count(display) - content_size[1])

\* The view went through _layout to its end in every call so far
LaidOut == pc \notin {"start", HeightWidthAssertion, KeywordsAssertion}

\* C21: after every call that changes the content or the layout of the view
\* (creation, set_lines, set_config, a keyword or a filter pushed or popped,
\* filters swapped or rotated, a toggle, another visibility or SGR mode, a
\* resize) and after every scroll, voffset is in
\* [0, max(0, display lines - content height)], and the assertion at the end
\* of _layout has not failed.
C21_VOffsetInRange ==
    LaidOut =>
      /\ pc # VOffsetAssertion
      /\ 0 <= offsets.voffset
      /\ offsets.voffset <= ViewVMax

\* A filter pushed while the view is scrolled down leaves fewer display
\* lines than before and _layout moves voffset up to the new maximum
C21_Witness ==
    /\ pc = "push_keyword"
    /\ status = "New filter created"
    /\ o_prev.voffset > offsets.voffset
    /\ offsets.voffset = ViewVMax
    /\ offsets.voffset > 0

\* The index of the first display line of the original line of 1-based
\* number n, or -1 when the selected lines do not hold it
FirstDisplayLineOf(n) ==
    LET holds == {k \in 1..Len(selected.lines) :
                     selected.lines[k].line_index = n - 1}
    IN IF holds = {} THEN -1
       ELSE display.firstdlines[CHOOSE k \in holds : TRUE]

\* C24: goto_line(n), n the 1-based number of an original line that the
\* selected lines hold, sets voffset to the index of the first display line
\* of that line, or to the largest voffset when that index is above it.
C24_GotoLineShowsLine ==
    (pc = "goto_line" /\ ~ValueError(v_arg)) =>
      (FirstDisplayLineOf(int(v_arg)) >= 0 =>
         offsets.voffset = Min(FirstDisplayLineOf(int(v_arg)), ViewVMax))

\* C25: goto_line does not fail; a target n <= 0 moves the view to the top,
\* a target above the number of the last original line moves it to the
\* bottom, whatever the wrapping and the filters; a text that is not a
\* number gives the status 'Not a number' and leaves the offsets as they
\* were.
C25_GotoLineClamps ==
    pc = "goto_line" =>
      IF ValueError(v_arg)
      THEN status = "Not a number" /\ offsets = o_prev
      ELSE /\ int(v_arg) <= 0 => offsets.voffset = 0
           /\ int(v_arg) > Len(raw_lines) => offsets.voffset = ViewVMax

\* The fields of the configuration and what is computed from it
configured == <<filters, wrap, line_numbers, bullets, line_mode, sgr_mode>>

computed == <<sgr, selected, content_size, display, offsets>>

\* C26: push_keyword with the empty keyword returns 'No keyword added' and
\* with a keyword that is not a pattern returns 'Invalid python regex
\* pattern'; in both cases the filters, their keywords and flags and the
\* rest of the configuration are as before, and the selected lines, the
\* display lines and the offsets are not recomputed.
C26_RejectedKeywordChangesNothing ==
    [][(pc' = "push_keyword"
           /\ v_arg' \in {Pattern("lit", <<>>), Pattern("star", <<>>)}) =>
         /\ v_arg' = Pattern("lit", <<>>) => status' = "No keyword added"
         /\ v_arg' = Pattern("star", <<>>) =>
              status' = "Invalid python regex pattern"
         /\ UNCHANGED <<configured, computed, raw_lines>>]_vars

\* The keyword * is refused by a view that has a filter
C26_Witness ==
    /\ pc = "push_keyword"
    /\ v_arg = Pattern("star", <<>>)
    /\ status = "Invalid python regex pattern"
    /\ Len(filters) > 0

\* C27: in every state every filter of the stack holds a keyword and
\* find_matching's assertion len(keywords) > 0 has not failed; a
\* _pop_keyword on a top filter of one keyword removes that filter and keeps
\* the others; a keyword pushed on an empty stack makes a new filter
\* whatever new_filter says.
C27_FiltersHoldKeywords ==
    [][/\ \A i \in 1..Len(filters') : Len(filters'[i].keywords) > 0
       /\ pc' # KeywordsAssertion
       /\ ~selected'.raised
       /\ (/\ pc' = "pop_keyword"
           /\ Len(filters) > 0
           /\ Len(filters[Len(filters)].keywords) = 1)
            => filters' = SubSeq(filters, 1, Len(filters) - 1)
       /\ (/\ pc' = "push_keyword"
           /\ filters = <<>>
           /\ v_arg' \in {KeyA, KeyB})
            => /\ status' = "New filter created"
               /\ Len(filters') = 1
               /\ filters'[1].keywords = <<v_arg'>>]_vars

\* The only keyword of the only filter is popped and the stack is empty
C27_Witness ==
    /\ pc = "pop_keyword"
    /\ status = "Filter removed"
    /\ filters = <<>>
    /\ ops = 2

---------------------------------------------------------------------------
(* Properties of AutoEnum *)

\* C31: in each of LineVisibility, ColorizeMode and SgrMode, get_prev undoes
\* get_next and get_next undoes get_prev on every member; get_next of the
\* last member is the first and get_prev of the first is the last; as many
\* get_next calls as the class has members lead back to the member they
\* started from; from_int(i) raises ValueError for every i that is not the
\* value of a member, and returns the member of value i otherwise.
C31_NextPrevCyclic ==
    /\ e_order # <<>> =>
         /\ get_prev(e_order, get_next(e_order, e_cur)) = e_cur
         /\ get_next(e_order, get_prev(e_order, e_cur)) = e_cur
         /\ get_next(e_order, e_order[Len(e_order)]) = e_order[1]
         /\ get_prev(e_order, e_order[1]) = e_order[Len(e_order)]
         /\ (e_nexts = Len(e_order) /\ e_prevs = 0) => e_cur = e_start
         /\ e_cur \in Range(e_order)
    /\ pc = "from_int" =>
         IF e_arg \in 0..(Len(e_order) - 1)
         THEN e_ret = e_order[e_arg + 1]
         ELSE e_ret = UnsupportedEnumValue

\* get_next was called on every member of LineVisibility in turn, from the
\* last one too, and from_int is then called with the number of members
C31_Witness ==
    /\ e_order = LineVisibilityOrder
    /\ e_nexts = Len(e_order)
    /\ e_prevs = 0
    /\ e_start = "CONTEXT_2"
    /\ pc = "from_int"
    /\ e_arg = Len(e_order)
    /\ e_ret = UnsupportedEnumValue

---------------------------------------------------------------------------
(* Properties of Store *)

\* The slot ids of the files of a directory
SlotIds(dir) == {to_int(name) : name \in dir}

\* C32: delete() removes the current slot, the one saved or loaded last, and
\* no other, and returns its id; with no current slot (a new Store, or a
\* delete just made) it returns None and removes nothing; save() writes to
\* a slot id not in use, 0 in an empty store and the largest id plus 1
\* otherwise, and that slot is the current one afterwards.
C32_DeleteCurrentSaveNew ==
    [][/\ pc' = "delete" =>
            IF st_cur = None
            THEN st_ret' = None /\ store'.dir = store.dir
            ELSE /\ st_ret' = st_cur
                 /\ SlotIds(store'.dir) = SlotIds(store.dir) \ {st_cur}
       /\ pc' = "save" =>
            /\ st_ret' \notin SlotIds(store.dir)
            /\ st_ret' = IF store.dir = {} THEN 0
                         ELSE max(SlotIds(store.dir)) + 1
            /\ SlotIds(store'.dir) = SlotIds(store.dir) \cup {st_ret'}
            /\ SlotIdOrNone(store'.scan.slot_ids, store'.cur_idx) = st_ret'
      ]_vars

---------------------------------------------------------------------------
(* Properties of the key Processor *)

\* The escape timeout has elapsed since the last ESC
TimedOut == k_now - kp.start > ESCAPE_TIMEOUT

\* The event of a key that no escape sequence holds
OrdinaryEvent(key) == KeyEvent(key, <<>>, NoCommand)

\* C33: a poll (key < 0) that arrives while an escape sequence is in
\* progress ends the escaping and gives the event of the ESC key when no
\* character came after ESC, and the event UNMAP when one or more did; the
\* sequence is empty in every state where the processor is not escaping.
C33_PollEndsEscape ==
    [][/\ ~kp'.escaping => kp'.seq = <<>>
       /\ (pc' = "process" /\ kp.escaping /\ k_key' < 0) =>
            /\ ~kp'.escaping
            /\ kp.seq = <<>> => k_ev'.key = ESC_KEY
            /\ kp.seq # <<>> => k_ev'.key = UNMAP
      ]_vars

\* A poll has ended a sequence of one character or more
C33_Witness ==
    /\ pc = "process"
    /\ k_key = POLL
    /\ k_ev.key = UNMAP
    /\ k_ev.text = <<"O">>
    /\ ~kp.escaping

\* C34: while escaping and before the timeout, a key that leaves the
\* sequence short of every entry of ESCAPED_TO_COMMAND gives a POLL event
\* and the escaping goes on; the key that completes an entry gives the
\* command of that entry and ends the escaping, and the key after it is
\* returned as an ordinary key; ESC while escaping empties the sequence and
\* starts the escaping again; a key that arrives after the timeout ends the
\* escaping and is returned as an ordinary key.
C34_EscapeSequences ==
    [][pc' = "process" =>
        /\ (kp.escaping /\ k_key' = ESC_KEY) =>
             /\ kp' = [escaping |-> TRUE, seq |-> <<>>, start |-> k_now]
             /\ k_ev'.key = POLL
        /\ (kp.escaping /\ k_key' >= 0 /\ k_key' # ESC_KEY /\ ~TimedOut) =>
             LET seq == Append(kp.seq, chr(k_key'))
             IN IF seq \in DOMAIN ESCAPED_TO_COMMAND
                THEN /\ k_ev'.cmd = ESCAPED_TO_COMMAND[seq]
                     /\ ~kp'.escaping
                ELSE /\ k_ev'.key = POLL
                     /\ k_ev'.cmd = NoCommand
                     /\ kp'.escaping
                     /\ kp'.seq = seq
        /\ (kp.escaping /\ k_key' >= 0 /\ k_key' # ESC_KEY /\ TimedOut) =>
             /\ ~kp'.escaping
             /\ k_ev' = OrdinaryEvent(k_key')
        /\ (~kp.escaping /\ k_key' \notin {ESC_KEY, KEY_MOUSE}) =>
             /\ ~kp'.escaping
             /\ k_ev' = OrdinaryEvent(k_key')
      ]_vars

\* ESC O H has given GO_HOME
C34_Witness ==
    /\ pc = "process"
    /\ k_key = ord("H")
    /\ k_ev.cmd = "GO_HOME"
    /\ k_ev.text = <<"O", "H">>
    /\ ~kp.escaping

---------------------------------------------------------------------------
(* Properties of the gap marker *)

\* C35: with a context size S in {1, 2, 5} requested, whatever the stack of
\* showing and hiding filters, two original lines that follow each other in
\* the selected output are neighbours in the file: where raw lines were
\* skipped between two selected original lines, a gap marker lies between
\* them.
C35_GapMarkerWhereSkipped ==
    (pc = "filter" /\ ContextSize > 0) =>
        \A k \in 1..(Len(SelectedIndexes) - 1) :
            (/\ SelectedIndexes[k] # RULER_INDEX
             /\ SelectedIndexes[k + 1] # RULER_INDEX)
                => SelectedIndexes[k + 1] - SelectedIndexes[k] <= 1

---------------------------------------------------------------------------
(* Properties of the background segments *)

\* C36: in process mode, for a line of plain characters, SGR sequences and
\* other CSI sequences, every background segment returned has
\* 0 <= start < end <= the length of the stripped text returned with it, and
\* the segments are sorted and do not overlap.
C36_BackgroundInsideStrippedText ==
    (pc = "sgr_filter" /\ sgr_mode = "PROCESS") =>
        /\ \A k \in 1..Len(sgr_out.background) :
              /\ 0 <= sgr_out.background[k].start
              /\ sgr_out.background[k].start < sgr_out.background[k].end
              /\ sgr_out.background[k].end <= Len(sgr_out.line)
        /\ \A k \in 1..(Len(sgr_out.background) - 1) :
              sgr_out.background[k].end <= sgr_out.background[k + 1].start


---------------------------------------------------------------------------
(* Properties of the view commands *)

\* The calls that toggle a flag of the configuration or of the top filter
Toggles ==
    {"toggle_line_numbers", "toggle_wrap", "toggle_bullets",
     "toggle_ignore_case", "toggle_hiding"}

\* C37: once the view has a positive size, after any sequence of keywords
\* and filters pushed and of toggles, _layout calls SelectedContent.layout
\* with height > 0 and width > 0: the assertions 'height > 0' and
\* 'width > 0' do not fail, however many filters are stacked.
C37_LayoutSizePositive ==
    [][(/\ pc \in {"create", "push_keyword"} \cup Toggles
        /\ view_size[1] > 0 /\ view_size[2] > 0
        /\ Len(filters') = Len(filters) + 1
        /\ SubSeq(filters', 1, Len(filters)) = filters
        /\ UNCHANGED <<view_size, raw_lines, wrap, line_numbers, bullets,
                       line_mode, sgr_mode>>) =>
         pc' # HeightWidthAssertion]_vars

\* C38: VSCROLL_TO_NEXT_MATCH and VSCROLL_TO_PREV_MATCH read display line
\* voffset inside the array of display lines in every state, an empty file
\* and a stack of filters that selects no line included; they end without
\* an error and report (END) or (BEGIN) when the offset does not change.
C38_ScrollToMatchCompletes ==
    [][(/\ pc \notin {"start"} \cup Assertions
        /\ pc' \in {"vscroll_to_next_match", "vscroll_to_prev_match",
                    IndexError}) =>
         /\ pc' # IndexError
         /\ offsets.voffset < Len(display.dlines)
         /\ offsets'.voffset = offsets.voffset =>
              status' = (IF pc' = "vscroll_to_next_match" THEN "(END)"
                         ELSE "(BEGIN)")]_vars

\* The calls that change the filters of the configuration in place
FilterChanges ==
    {"push_keyword", "pop_keyword", "pop_filter", "swap_filters",
     "rotate_filters", "toggle_ignore_case", "toggle_hiding"}

\* C39: after a slot saved or loaded, when dirty is False, every call that
\* changes the filters of the view (a keyword added to the top filter
\* or popped, a filter popped, pushed, swapped or rotated, ignore-case or
\* hiding toggled) sets dirty, so that the next SLOT_SAVE stores the
\* configuration.
C39_FilterChangeSetsDirty ==
    [][(/\ pc \in {"slot_save", "slot_load"}
        /\ ~dirty
        /\ pc' \in FilterChanges
        /\ filters' # filters) =>
         dirty']_vars

\* C40: edit-keyword with a text that is not a valid pattern leaves the
\* stack of filters as it was: the number of filters, the keywords of every
\* filter and the flags of the top filter.
C40_InvalidEditKeepsFilters ==
    [][(pc' = "edit_keyword" /\ v_arg' = Pattern("star", <<>>)) =>
         filters' = filters]_vars
=============================================================================
